---- MODULE Spec2Model ----
(***************************************************************************)
(* Job execution engine of claude-scheduler: the scheduler's tick loop,    *)
(* executeJob / finishExecution, RunNow, AnswerQuestion, Start and Stop    *)
(* (internal/scheduler/scheduler.go) over the job and run tables of the    *)
(* store (internal/db/jobs.go, internal/db/runs.go).                       *)
(*                                                                         *)
(* A step is a stretch of one goroutine's code: the status check of a call  *)
(* (tick's GetJobs, RunNow's and AnswerQuestion's GetJob) is a step of its *)
(* own, separate from the writes that act on it, and an invocation of the  *)
(* executor lies between the step that starts a run and the step that      *)
(* completes it.  Goroutines interleave between steps.                     *)
(***************************************************************************)
EXTENDS Integers, Sequences, FiniteSets, TLC

(***************************************************************************)
(* Bounds of the model.                                                    *)
(***************************************************************************)
NumJobs == 2
MaxAsync == 2
MaxExecs == 2
MaxClockSteps == 1
MaxCrashes == 1
TicksPerSecond == 2

(***************************************************************************)
(* Strings.  A string is a run-length encoded byte sequence: a sequence of *)
(* runs [c, n] (n >= 1 copies of the byte c) in which adjacent runs carry  *)
(* different bytes, so that equal strings have equal representations and   *)
(* strings of the size of the output cap can be handled.                   *)
(***************************************************************************)
EmptyStr == << >>

Lit(c, n) == << [c |-> c, n |-> n] >>

RECURSIVE StrLen(_)
StrLen(s) == IF s = << >> THEN 0 ELSE s[1].n + StrLen(Tail(s))

Concat(a, b) ==
    IF a = << >> THEN b
    ELSE IF b = << >> THEN a
    ELSE IF a[Len(a)].c = b[1].c
         THEN SubSeq(a, 1, Len(a) - 1)
              \o << [c |-> b[1].c, n |-> a[Len(a)].n + b[1].n] >>
              \o Tail(b)
         ELSE a \o b

\* s[:k] of Go, for 0 <= k <= len(s)
RECURSIVE Take(_, _)
Take(s, k) ==
    IF k <= 0 \/ s = << >> THEN << >>
    ELSE IF s[1].n <= k THEN Concat(<< s[1] >>, Take(Tail(s), k - s[1].n))
    ELSE << [c |-> s[1].c, n |-> k] >>

HasPrefix(s, p) == StrLen(p) <= StrLen(s) /\ Take(s, StrLen(p)) = p

\* strings.Contains(s, sub): sub is empty, or occurs in s with its first run
\* ending inside some run i of s and its last run starting a run of s
Contains(s, sub) ==
    LET m == Len(sub)
    IN \/ sub = << >>
       \/ \E i \in 1..(Len(s) - m + 1) :
            /\ s[i].c = sub[1].c /\ s[i].n >= sub[1].n
            /\ s[i + m - 1].c = sub[m].c /\ s[i + m - 1].n >= sub[m].n
            /\ \A k \in 2..(m - 1) : s[i + k - 1] = sub[k]

Whitespace == {" ", "\n", "\t", "\r"}

RECURSIVE TrimLeft(_)
TrimLeft(s) ==
    IF s # << >> /\ s[1].c \in Whitespace THEN TrimLeft(Tail(s)) ELSE s

RECURSIVE TrimRight(_)
TrimRight(s) ==
    IF s # << >> /\ s[Len(s)].c \in Whitespace
    THEN TrimRight(SubSeq(s, 1, Len(s) - 1)) ELSE s

\* strings.TrimSpace(s)
TrimSpace(s) == TrimRight(TrimLeft(s))

\* the separator "\n\n" AnswerQuestion puts between the prior output and the
\* new transcript
Sep == Lit("\n", 2)

(***************************************************************************)
(* internal/db/runs.go: output cap.                                        *)
(***************************************************************************)
maxRunsPerJob == 10
maxOutputBytes == 102400
truncatedMarker ==
    Concat(Lit("\n", 2), Concat(Lit("[", 1), Concat(Lit("t", 1),
    Concat(Lit("r", 1), Concat(Lit("u", 1), Concat(Lit("n", 1),
    Concat(Lit("c", 1), Concat(Lit("a", 1), Concat(Lit("t", 1),
    Concat(Lit("e", 1), Concat(Lit("d", 1), Lit("]", 1))))))))))))

\* mutant: the marker is appended to the first maxOutputBytes bytes
truncateOutputAppend(s) ==
    IF StrLen(s) <= maxOutputBytes THEN s
    ELSE Concat(Take(s, maxOutputBytes), truncatedMarker)

truncateOutput(s) ==
    IF StrLen(s) <= maxOutputBytes THEN s
    ELSE Concat(Take(s, maxOutputBytes - StrLen(truncatedMarker)), truncatedMarker)

(***************************************************************************)
(* Time.  An instant is a number of clock ticks (TicksPerSecond per        *)
(* second).  A stored timestamp is a string: empty, RFC3339 (whole         *)
(* seconds), the frontend's datetime-local form (whole minutes), or        *)
(* something that does not parse.                                          *)
(***************************************************************************)
Second == TicksPerSecond
Minute == 60 * Second
Hour == 60 * Minute

NoTime == [kind |-> "empty", sec |-> 0]
BadTime == [kind |-> "bad", sec |-> 0]

\* time.Time.Format(time.RFC3339): the sub-second part is dropped
FormatRFC3339(t) == [kind |-> "rfc3339", sec |-> t \div TicksPerSecond]

\* a "2006-01-02T15:04" string: no seconds field
FormatLocal(t) == [kind |-> "local", sec |-> 60 * (t \div Minute)]

parseTime(s) ==
    IF s.kind \in {"rfc3339", "local"}
    THEN [ok |-> TRUE, t |-> s.sec * TicksPerSecond]
    ELSE [ok |-> FALSE, t |-> 0]

intervalDuration(value, unit) ==
    CASE unit = "minutes" -> value * Minute
      [] unit = "hours"   -> value * Hour
      [] unit = "days"    -> value * 24 * Hour
      [] unit = "weeks"   -> value * 7 * 24 * Hour
      [] OTHER            -> 0

(***************************************************************************)
(* Event stream lines (one JSON event per line) and DetectQuestion.        *)
(* A line either fails to unmarshal (json = FALSE) or is an event with a   *)
(* type and, for assistant events, a message with content blocks.  The     *)
(* input of a tool_use block is its raw text plus what unmarshalling it    *)
(* into questionInput gives: whether it parses and how many questions.     *)
(***************************************************************************)
NoInput == [raw |-> EmptyStr, parses |-> FALSE, questions |-> 0]
Block(type, name, input) ==
    [type |-> type, name |-> name, input |-> input, text |-> EmptyStr]
TextBlock == Block("text", "", NoInput)
ToolBlock(name, input) == Block("tool_use", name, input)
\* a line also carries its raw text, and a result event its result text and
\* its is_error flag
Event(type, hasMessage, blocks, result, isError, raw) ==
    [json |-> TRUE, type |-> type, hasMessage |-> hasMessage, content |-> blocks,
     result |-> result, isError |-> isError, raw |-> raw]
BadLine ==
    [json |-> FALSE, type |-> "", hasMessage |-> FALSE, content |-> << >>,
     result |-> EmptyStr, isError |-> FALSE, raw |-> Lit("not json", 8)]
AssistantLine(blocks) ==
    Event("assistant", TRUE, blocks, EmptyStr, FALSE, Lit("{assistant}", 11))
ResultLine == Event("result", FALSE, << >>, EmptyStr, FALSE, Lit("{result}", 8))

RECURSIVE LastQuestionInBlocks(_, _)
LastQuestionInBlocks(blocks, last) ==
    IF blocks = << >> THEN last
    ELSE LET b == blocks[1]
             hit == /\ b.type = "tool_use"
                    /\ b.name = "AskUserQuestion"
                    /\ StrLen(b.input.raw) > 0
                    /\ b.input.parses
                    /\ b.input.questions > 0
         IN LastQuestionInBlocks(Tail(blocks), IF hit THEN b.input.raw ELSE last)

RECURSIVE DetectQuestionFrom(_, _)
DetectQuestionFrom(lines, last) ==
    IF lines = << >> THEN last
    ELSE LET l == lines[1]
         IN IF ~l.json \/ l.type # "assistant" \/ ~l.hasMessage
            THEN DetectQuestionFrom(Tail(lines), last)
            ELSE DetectQuestionFrom(Tail(lines),
                                    LastQuestionInBlocks(l.content, last))

DetectQuestion(lines) == DetectQuestionFrom(lines, EmptyStr)

(***************************************************************************)
(* Transcript builder.  The markup written around a piece of text is kept  *)
(* as one token per literal (or run of literals) of the source, with the   *)
(* literal's length.                                                       *)
(***************************************************************************)
ToolOpen == Lit("<details><summary>Tool: ", 208)
CardOpen == Lit("<div question>", 274)
SummaryOpen == Lit("<hr><div><strong>Summary</strong><br>", 253)
Newlines(n) == Lit("\n", n)

\* writeText
writeText(buf, text) ==
    IF TrimSpace(text) = EmptyStr THEN buf
    ELSE Concat(buf, Concat(Lit("<div text>", 155), Concat(TrimSpace(text),
                Concat(Lit("</div>", 6), Newlines(2)))))

\* writeQuestion: one card per question of the input, each with the header,
\* the question, the options and the closing markup
RECURSIVE Cards(_)
Cards(n) ==
    IF n = 0 THEN EmptyStr
    ELSE Concat(CardOpen, Concat(Lit("Question</div>...</div>", 67),
                Concat(Newlines(2), Cards(n - 1))))

writeQuestion(buf, input) == Concat(buf, Cards(input.questions))

\* the test of writeToolUse and of DetectQuestion for a question invocation
IsQuestionCall(name, input) ==
    /\ name = "AskUserQuestion"
    /\ StrLen(input.raw) > 0
    /\ input.parses
    /\ input.questions > 0

\* the generic tool block of writeToolUse; json.MarshalIndent shows an input
\* that is JSON re-indented, an input that is not JSON is shown as it is
GenericTool(buf, name, input) ==
    LET indented == IF input.parses THEN Concat(Lit("{\n  ", 4), input.raw)
                    ELSE input.raw
    IN Concat(buf, Concat(ToolOpen, Concat(Lit(name, 1), Concat(Lit("</summary>", 10),
              Concat(IF StrLen(input.raw) > 0
                     THEN Concat(Lit("<pre>", 103), Concat(indented, Lit("</pre>", 6)))
                     ELSE EmptyStr,
                     Concat(Lit("</details>", 10), Newlines(2)))))))

\* mutant: every tool invocation is rendered as a generic tool block
writeToolUseGeneric(buf, name, input) == GenericTool(buf, name, input)

\* writeToolUse
writeToolUse(buf, name, input) ==
    IF IsQuestionCall(name, input)
    THEN writeQuestion(buf, input)
    ELSE GenericTool(buf, name, input)

\* writeToolResult
writeToolResult(buf, text) ==
    IF text = EmptyStr THEN buf
    ELSE Concat(buf, Concat(Lit("<details><summary>Result", 208),
                Concat(Lit("</summary>", 10), Concat(Lit("<pre result>", 124),
                Concat(text, Concat(Lit("</pre>", 6),
                Concat(Lit("</details>", 10), Newlines(2))))))))

\* writeSummary
writeSummary(buf, text) ==
    IF TrimSpace(text) = EmptyStr THEN buf
    ELSE Concat(buf, Concat(SummaryOpen, Concat(TrimSpace(text),
                Concat(Lit("</div>", 6), Newlines(1)))))

\* handleAssistant, for a message that is not nil
RECURSIVE handleAssistant(_, _)
handleAssistant(buf, blocks) ==
    IF blocks = << >> THEN buf
    ELSE LET b == blocks[1]
             next == CASE b.type = "text" -> writeText(buf, b.text)
                       [] b.type = "tool_use" -> writeToolUse(buf, b.name, b.input)
                       [] b.type = "tool_result" -> writeToolResult(buf, b.text)
                       [] OTHER -> buf
         IN handleAssistant(next, Tail(blocks))

\* the loop of buildTranscript: the buffer and lastResult after the lines
RECURSIVE ScanLines(_, _, _)
ScanLines(lines, buf, lastResult) ==
    IF lines = << >> THEN [buf |-> buf, lastResult |-> lastResult]
    ELSE LET l == lines[1]
         IN IF TrimSpace(l.raw) = EmptyStr \/ ~l.json
            THEN ScanLines(Tail(lines), buf, lastResult)
            ELSE IF l.type = "assistant"
            THEN ScanLines(Tail(lines),
                           IF l.hasMessage THEN handleAssistant(buf, l.content) ELSE buf,
                           lastResult)
            ELSE IF l.type = "result"
            THEN ScanLines(Tail(lines), buf, l.result)
            ELSE ScanLines(Tail(lines), buf, lastResult)

\* mutant: the summary is appended whenever the last result has a text
needsSummaryAlways(built, lastResult) == lastResult # EmptyStr

\* buildTranscript: whether the summary of the last result is appended
needsSummary(built, lastResult) ==
    lastResult # EmptyStr /\ ~Contains(built, TrimSpace(lastResult))

\* buildTranscript
buildTranscript(lines) ==
    LET scanned == ScanLines(lines, EmptyStr, EmptyStr)
    IN IF needsSummary(TrimSpace(scanned.buf), scanned.lastResult)
       THEN TrimSpace(writeSummary(scanned.buf, scanned.lastResult))
       ELSE TrimSpace(scanned.buf)

\* the first text block of a message with a text, or the empty string
RECURSIVE FirstText(_)
FirstText(blocks) ==
    IF blocks = << >> THEN EmptyStr
    ELSE IF blocks[1].type = "text" /\ blocks[1].text # EmptyStr THEN blocks[1].text
    ELSE FirstText(Tail(blocks))

\* extractError: the message of the first result event flagged as an error
\* that has one, else the first assistant text
RECURSIVE extractErrorFrom(_, _)
extractErrorFrom(lines, fallback) ==
    IF lines = << >> THEN fallback
    ELSE LET l == lines[1]
         IN IF TrimSpace(l.raw) = EmptyStr \/ ~l.json
            THEN extractErrorFrom(Tail(lines), fallback)
            ELSE IF l.type = "result" /\ l.isError /\ l.result # EmptyStr
            THEN l.result
            ELSE IF fallback = EmptyStr /\ l.type = "assistant" /\ l.hasMessage
            THEN extractErrorFrom(Tail(lines), FirstText(l.content))
            ELSE extractErrorFrom(Tail(lines), fallback)

\* mutant: the first assistant text comes before a flagged result event
extractErrorTextFirst(lines) ==
    LET texts == {i \in 1..Len(lines) :
                    /\ lines[i].json /\ lines[i].type = "assistant"
                    /\ lines[i].hasMessage /\ FirstText(lines[i].content) # EmptyStr}
    IN IF texts = {} THEN extractErrorFrom(lines, EmptyStr)
       ELSE FirstText(lines[CHOOSE i \in texts : \A k \in texts : i <= k].content)

extractError(lines) == extractErrorFrom(lines, EmptyStr)

\* strings.Join(lines, "\n") of the raw lines
RECURSIVE JoinLines(_)
JoinLines(lines) ==
    IF lines = << >> THEN EmptyStr
    ELSE IF Len(lines) = 1 THEN lines[1].raw
    ELSE Concat(lines[1].raw, Concat(Newlines(1), JoinLines(Tail(lines))))

(***************************************************************************)
(* Results an executor invocation (ExecuteFunc / AnswerFunc) can return.   *)
(***************************************************************************)
ErrText == Lit("E", 5)
TShort == Lit("a", 4)
TBig == Lit("x", maxOutputBytes - 3)
Q1 == Lit("q", 7)
QuestionInput(n) == [raw |-> Q1, parses |-> TRUE, questions |-> n]

Result(err, errText, transcript, rawLines) ==
    [err |-> err, errText |-> errText, Transcript |-> transcript, RawLines |-> rawLines]

ResOk == Result(FALSE, EmptyStr, TShort, << AssistantLine(<< TextBlock >>), ResultLine >>)
\* a transcript just under the output cap, ending with a question
ResQuestion ==
    Result(FALSE, EmptyStr, TBig,
           << BadLine,
              AssistantLine(<< TextBlock, ToolBlock("AskUserQuestion", QuestionInput(0)) >>),
              AssistantLine(<< TextBlock, ToolBlock("AskUserQuestion", QuestionInput(1)) >>),
              ResultLine >>)
ResErr == Result(TRUE, ErrText, EmptyStr, << >>)

Results == {ResOk, ResQuestion, ResErr}

(***************************************************************************)
(* State.                                                                  *)
(***************************************************************************)
JobIds == 1..NumJobs
Loop == 0
Slots == 1..MaxAsync
Procs == {Loop} \cup Slots

VARIABLES
    jobs,       \* store: table jobs, job id -> row
    runs,       \* store: table job_runs, in insertion order
    nextRunId,  \* next fresh run id (uuid.New)
    now,        \* wall clock
    clockSteps, \* number of clock advances so far
    crashes,    \* number of process deaths so far
    execs,      \* number of executions launched so far (tick, RunNow, answer)
    started,    \* Start has run in this process
    cancelled,  \* s.ctx is cancelled
    wg,         \* s.wg counter
    stopPc,     \* Stop(): "none", "waiting" (in wg.Wait), "returned"
    stopMidRun, \* history: Stop() was called while an execution was in flight
    pc,         \* position of the loop goroutine and of each async call
    ljob,       \* local job copy of each execution path
    lrun,       \* local run copy of each execution path
    lnow,       \* the now argument of executeJob
    tjobs,      \* tick: the job list loaded by GetJobs
    ti,         \* tick: index into tjobs
    events,     \* the change events and notifications issued by the last step
    cli         \* executor: the call of ClaudeExecute / ClaudeAnswer in progress

vars == << jobs, runs, nextRunId, now, clockSteps, crashes, execs, started,
           cancelled, wg, stopPc, stopMidRun, pc, ljob, lrun, lnow, tjobs, ti,
           events, cli >>

\* the variables of the scheduler and the store
schedVars == << jobs, runs, nextRunId, now, clockSteps, crashes, execs, started,
                cancelled, wg, stopPc, stopMidRun, pc, ljob, lrun, lnow, tjobs,
                ti, events >>

NoResult == Result(FALSE, EmptyStr, EmptyStr, << >>)

\* no call of the executor is in progress
CliIdle ==
    [pc |-> "idle", kind |-> "", id |-> 0, turn |-> "", servers |-> 0,
     fault |-> "none", built |-> FALSE, file |-> FALSE, created |-> FALSE,
     cleanup |-> "noop",
     invocations |-> << >>, outcomes |-> << >>, result |-> NoResult]

NoJob == [id |-> 0, name |-> 0, active |-> FALSE, intervalValue |-> 0,
          intervalUnit |-> "", startDate |-> NoTime, lastRun |-> NoTime,
          nextRun |-> NoTime, status |-> "", output |-> EmptyStr,
          pendingQuestion |-> EmptyStr]

\* the zero JobRun (ID == "")
NoRun == [id |-> 0, jobId |-> 0, startedAt |-> NoTime, endedAt |-> NoTime,
          status |-> "", output |-> EmptyStr, pendingQuestion |-> EmptyStr]

Emit == [type |-> "emit", name |-> 0, status |-> "jobs:updated"]
Notify(name, status) == [type |-> "notify", name |-> name, status |-> status]

(***************************************************************************)
(* Store: jobs table (internal/db/jobs.go).                                *)
(***************************************************************************)
validIntervalUnits == {"minutes", "hours", "days", "weeks"}

validateJob(j) == j.intervalValue > 0 /\ j.intervalUnit \in validIntervalUnits

\* the pending_question column of a job row: written with the other columns
PendingQuestionColumn(j) == j.pendingQuestion

CreateJob(id) ==
    [id |-> id, name |-> id, active |-> TRUE, intervalValue |-> 1,
     intervalUnit |-> "minutes", startDate |-> FormatLocal(0), lastRun |-> NoTime,
     nextRun |-> NoTime, status |-> "pending", output |-> EmptyStr,
     pendingQuestion |-> EmptyStr]

\* ORDER BY name
GetJobs(jt) == [i \in 1..NumJobs |-> jt[i]]

GetJob(jt, id) == jt[id]

UpdateJobOk(jt, j) == validateJob(j) /\ j.id \in DOMAIN jt

UpdateJob(jt, j) ==
    IF UpdateJobOk(jt, j)
    THEN [jt EXCEPT ![j.id] = [j EXCEPT !.pendingQuestion = PendingQuestionColumn(j)]]
    ELSE jt

\* the literal 'interrupted: app was restarted' (30 bytes), kept as one token
InterruptedMsg == Lit("interrupted: app was restarted", 30)

NumRunning(jt) == Cardinality({id \in DOMAIN jt : jt[id].status = "running"})

\* mutant: the reset changes nothing
ResetRunningJobsNone(jt) == jt

\* mutant: the reset also catches jobs waiting for an answer
ResetRunningJobsAll(jt) ==
    [id \in DOMAIN jt |->
        IF jt[id].status \in {"running", "waiting"}
        THEN [jt[id] EXCEPT !.status = "failed", !.output = InterruptedMsg]
        ELSE jt[id]]

ResetRunningJobs(jt) ==
    [id \in DOMAIN jt |->
        IF jt[id].status = "running"
        THEN [jt[id] EXCEPT !.status = "failed",
                            !.output = InterruptedMsg]
        ELSE jt[id]]

(***************************************************************************)
(* Store: job_runs table (internal/db/runs.go).                            *)
(***************************************************************************)
RunIdx(rt, id) == {i \in 1..Len(rt) : rt[i].id = id}

CreateRun(rt, run, id) ==
    Append(rt, [run EXCEPT !.id = id, !.output = truncateOutput(run.output)])

UpdateRunOk(rt, run) == RunIdx(rt, run.id) # {}

UpdateRun(rt, run) ==
    [i \in 1..Len(rt) |->
        IF rt[i].id = run.id
        THEN [rt[i] EXCEPT !.status = run.status,
                           !.output = truncateOutput(run.output),
                           !.endedAt = run.endedAt,
                           !.pendingQuestion = run.pendingQuestion]
        ELSE rt[i]]

RunsOf(rt, jobId) == {i \in 1..Len(rt) : rt[i].jobId = jobId}

\* ORDER BY started_at DESC LIMIT 1: any row with the greatest started_at
\* (stored RFC3339 UTC strings of one layout compare like their instants)
LatestRuns(rt, jobId) ==
    {i \in RunsOf(rt, jobId) :
        \A k \in RunsOf(rt, jobId) : rt[k].startedAt.sec <= rt[i].startedAt.sec}

RECURSIVE KeepRows(_, _, _)
KeepRows(rt, keep, i) ==
    IF i > Len(rt) THEN << >>
    ELSE (IF i \in keep THEN << rt[i] >> ELSE << >>) \o KeepRows(rt, keep, i + 1)

\* the sets of rows of the job PruneRuns may retain: the maxRunsPerJob rows
\* with the greatest started_at, ties broken either way
PruneKeeps(rt, jobId) ==
    LET all == RunsOf(rt, jobId)
    IN IF Cardinality(all) <= maxRunsPerJob
       THEN {all}
       ELSE {K \in SUBSET all :
               /\ Cardinality(K) = maxRunsPerJob
               /\ \A i \in K, k \in all \ K : rt[k].startedAt.sec <= rt[i].startedAt.sec}

\* mutant: nothing is deleted
PruneRunsNothing(rt, jobId, K) == rt

PruneRuns(rt, jobId, K) ==
    KeepRows(rt, K \cup {i \in 1..Len(rt) : rt[i].jobId # jobId}, 1)

(***************************************************************************)
(* isDue (scheduler.go).                                                   *)
(***************************************************************************)
\* mutant: the boundary reference + interval = now is not due
isDueStrict(job, t) ==
    IF ~job.active THEN FALSE
    ELSE IF job.status = "running" \/ job.status = "waiting" THEN FALSE
    ELSE LET interval == intervalDuration(job.intervalValue, job.intervalUnit)
             ref == IF job.lastRun.kind = "empty" THEN job.startDate ELSE job.lastRun
             refTime == parseTime(ref)
         IN IF interval = 0 THEN FALSE
            ELSE IF ref.kind = "empty" THEN FALSE
            ELSE IF ~refTime.ok THEN FALSE
            ELSE ~(refTime.t + interval >= t)

\* mutant: a job that never ran is due as soon as its start date has passed
isDueFromStart(job, t) ==
    IF ~job.active THEN FALSE
    ELSE IF job.status = "running" \/ job.status = "waiting" THEN FALSE
    ELSE LET interval == intervalDuration(job.intervalValue, job.intervalUnit)
             ref == IF job.lastRun.kind = "empty" THEN job.startDate ELSE job.lastRun
             refTime == parseTime(ref)
         IN IF interval = 0 THEN FALSE
            ELSE IF ref.kind = "empty" THEN FALSE
            ELSE IF ~refTime.ok THEN FALSE
            ELSE IF job.lastRun.kind = "empty" THEN ~(refTime.t > t)
            ELSE ~(refTime.t + interval > t)

isDue(job, t) ==
    IF ~job.active THEN FALSE
    ELSE IF job.status = "running" \/ job.status = "waiting" THEN FALSE
    ELSE LET interval == intervalDuration(job.intervalValue, job.intervalUnit)
             ref == IF job.lastRun.kind = "empty" THEN job.startDate ELSE job.lastRun
             refTime == parseTime(ref)
         IN IF interval = 0 THEN FALSE
            ELSE IF ref.kind = "empty" THEN FALSE
            ELSE IF ~refTime.ok THEN FALSE
            ELSE ~(refTime.t + interval > t)

(***************************************************************************)
(* Initial state: a fresh database with NumJobs jobs created through       *)
(* CreateJob, the process not yet started.                                 *)
(***************************************************************************)
Init ==
    /\ jobs = [id \in JobIds |-> CreateJob(id)]
    /\ runs = << >>
    /\ nextRunId = 1
    /\ now = Minute
    /\ clockSteps = 0
    /\ crashes = 0
    /\ execs = 0
    /\ started = FALSE
    /\ cancelled = FALSE
    /\ wg = 0
    /\ stopPc = "none"
    /\ stopMidRun = FALSE
    /\ pc = [p \in Procs |-> IF p = Loop THEN "off" ELSE "free"]
    /\ ljob = [p \in Procs |-> NoJob]
    /\ lrun = [p \in Procs |-> NoRun]
    /\ lnow = [p \in Procs |-> 0]
    /\ tjobs = << >>
    /\ ti = 0
    /\ events = << >>
    /\ cli = CliIdle

(***************************************************************************)
(* Environment: the clock, and the death of the process (crash, kill or    *)
(* exit), after which only the database is left.                           *)
(***************************************************************************)
AdvanceClock ==
    /\ clockSteps < MaxClockSteps
    /\ now' = now + Minute
    /\ clockSteps' = clockSteps + 1
    /\ events' = << >>
    /\ UNCHANGED << jobs, runs, nextRunId, crashes, execs, started, cancelled, wg,
                    stopPc, stopMidRun, pc, ljob, lrun, lnow, tjobs, ti >>
    /\ UNCHANGED cli

Crash ==
    /\ started
    /\ crashes < MaxCrashes
    /\ crashes' = crashes + 1
    /\ started' = FALSE
    /\ cancelled' = FALSE
    /\ wg' = 0
    /\ stopPc' = "none"
    /\ stopMidRun' = FALSE
    /\ pc' = [p \in Procs |-> IF p = Loop THEN "off" ELSE "free"]
    /\ ljob' = [p \in Procs |-> NoJob]
    /\ lrun' = [p \in Procs |-> NoRun]
    /\ lnow' = [p \in Procs |-> 0]
    /\ tjobs' = << >>
    /\ ti' = 0
    /\ events' = << >>
    /\ UNCHANGED << jobs, runs, nextRunId, now, clockSteps, execs >>
    /\ UNCHANGED cli

(***************************************************************************)
(* Start and Stop.                                                         *)
(***************************************************************************)
Start ==
    /\ ~started
    /\ pc[Loop] = "off"
    /\ jobs' = ResetRunningJobs(jobs)
    /\ events' = IF NumRunning(jobs) > 0 THEN << Emit >> ELSE << >>
    /\ started' = TRUE
    /\ cancelled' = FALSE
    /\ wg' = wg + 1
    /\ pc' = [pc EXCEPT ![Loop] = "tick"]
    /\ UNCHANGED << runs, nextRunId, now, clockSteps, crashes, execs, stopPc, stopMidRun,
                    ljob, lrun, lnow, tjobs, ti >>
    /\ UNCHANGED cli

\* Stop: s.cancel(), then block in s.wg.Wait()
StopCancel ==
    /\ started
    /\ stopPc = "none"
    /\ cancelled' = TRUE
    /\ stopPc' = "waiting"
    /\ stopMidRun' = (pc[Loop] = "exec" /\ \E p \in Slots : pc[p] \in {"exec", "answer"})
    /\ events' = << >>
    /\ UNCHANGED << jobs, runs, nextRunId, now, clockSteps, crashes, execs, started,
                    wg, pc, ljob, lrun, lnow, tjobs, ti >>
    /\ UNCHANGED cli

\* mutant: Wait returns without waiting for the counter to reach zero
WaitDoneAlways(n) == n >= 0

\* sync.WaitGroup.Wait: returns once the counter is zero
WaitDone(n) == n = 0

\* s.wg.Wait() returns
StopReturn ==
    /\ stopPc = "waiting"
    /\ WaitDone(wg)
    /\ stopPc' = "returned"
    /\ UNCHANGED stopMidRun
    /\ events' = << >>
    /\ UNCHANGED << jobs, runs, nextRunId, now, clockSteps, crashes, execs, started,
                    cancelled, wg, pc, ljob, lrun, lnow, tjobs, ti >>
    /\ UNCHANGED cli

(***************************************************************************)
(* The loop goroutine: loop() and tick().                                  *)
(***************************************************************************)
\* mutant: a firing of the ticker starts a tick whatever the loop is doing
tickMayBeginAnytime(at) == at \in {"tick", "wait", "scan", "mark", "exec"}

\* loop(): tick() is called by the loop goroutine itself, once on startup and
\* then from its select, so only when the previous call has returned
tickMayBegin(at) == at \in {"tick", "wait"}

\* loop(): the first call of tick(), or the select takes case <-ticker.C;
\* tick(): GetJobs and time.Now()
TickLoad ==
    /\ tickMayBegin(pc[Loop])
    /\ tjobs' = GetJobs(jobs)
    /\ ti' = 1
    /\ lnow' = [lnow EXCEPT ![Loop] = now]
    /\ pc' = [pc EXCEPT ![Loop] = "scan"]
    /\ events' = << >>
    /\ UNCHANGED << jobs, runs, nextRunId, now, clockSteps, crashes, execs, started,
                    cancelled, wg, stopPc, stopMidRun, ljob, lrun >>
    /\ UNCHANGED cli

\* mutant: the tick executes every loaded job
DueFromAll(js, i, t) == i..Len(js)

\* indices from i on of the loaded jobs that are due
DueFrom(js, i, t) == {k \in i..Len(js) : isDue(js[k], t)}

Min(S) == CHOOSE x \in S : \A y \in S : x <= y

\* mutant: the tick never looks at the context
tickCancelledNever(done) == FALSE

\* tick(): select { case <-s.ctx.Done(): return; default: } before each job
tickCancelled(done) == done

\* tick(): the for loop, from the cancellation check before job ti up to the
\* call of executeJob for the next due job, or to the end of the list
TickScan ==
    /\ pc[Loop] = "scan"
    /\ IF ti > Len(tjobs) \/ tickCancelled(cancelled)
          \/ DueFrom(tjobs, ti, lnow[Loop]) = {}
       THEN /\ pc' = [pc EXCEPT ![Loop] = "wait"]
            /\ tjobs' = << >>
            /\ ti' = 0
            /\ lnow' = [lnow EXCEPT ![Loop] = 0]
            /\ UNCHANGED << ljob, execs >>
       ELSE /\ execs < MaxExecs
            /\ ti' = Min(DueFrom(tjobs, ti, lnow[Loop]))
            /\ ljob' = [ljob EXCEPT ![Loop] = tjobs[ti']]
            /\ pc' = [pc EXCEPT ![Loop] = "mark"]
            /\ execs' = execs + 1
            /\ UNCHANGED << tjobs, lnow >>
    /\ events' = << >>
    /\ UNCHANGED << jobs, runs, nextRunId, now, clockSteps, crashes, started,
                    cancelled, wg, stopPc, stopMidRun, lrun >>
    /\ UNCHANGED cli

\* loop(): select, case <-s.ctx.Done(); the deferred s.wg.Done()
LoopExit ==
    /\ pc[Loop] = "wait"
    /\ cancelled
    /\ pc' = [pc EXCEPT ![Loop] = "exited"]
    /\ wg' = wg - 1
    /\ events' = << >>
    /\ UNCHANGED << jobs, runs, nextRunId, now, clockSteps, crashes, execs, started,
                    cancelled, stopPc, stopMidRun, ljob, lrun, lnow, tjobs, ti >>
    /\ UNCHANGED cli

(***************************************************************************)
(* executeJob and finishExecution, run by the loop goroutine (tick path)   *)
(* or by a goroutine launched by RunNow.                                   *)
(***************************************************************************)
\* mutant: the goroutine of an async call ends without s.wg.Done()
EndPathNoDone(p) ==
    /\ pc' = [pc EXCEPT ![p] = IF p = Loop THEN "scan" ELSE "free"]
    /\ ti' = IF p = Loop THEN ti + 1 ELSE ti
    /\ wg' = wg
    /\ ljob' = [ljob EXCEPT ![p] = NoJob]
    /\ lrun' = [lrun EXCEPT ![p] = NoRun]
    /\ lnow' = [lnow EXCEPT ![p] = IF p = Loop THEN lnow[p] ELSE 0]
    /\ UNCHANGED tjobs

\* the end of an execution path: the tick goes on with the next job, an async
\* goroutine runs its deferred s.wg.Done()
EndPath(p) ==
    /\ pc' = [pc EXCEPT ![p] = IF p = Loop THEN "scan" ELSE "free"]
    /\ ti' = IF p = Loop THEN ti + 1 ELSE ti
    /\ wg' = IF p = Loop THEN wg ELSE wg - 1
    /\ ljob' = [ljob EXCEPT ![p] = NoJob]
    /\ lrun' = [lrun EXCEPT ![p] = NoRun]
    /\ lnow' = [lnow EXCEPT ![p] = IF p = Loop THEN lnow[p] ELSE 0]
    /\ UNCHANGED tjobs

\* executeJob up to the call of execFn: mark the job running, persist, emit,
\* notify; create the run record; load the MCP servers
BeginExecute(p) ==
    /\ pc[p] = "mark"
    /\ LET j == [ljob[p] EXCEPT !.status = "running", !.output = EmptyStr,
                                !.pendingQuestion = EmptyStr]
           \* RunNow's goroutine takes time.Now() when it calls executeJob
           t == IF p = Loop THEN lnow[p] ELSE now
           run == [NoRun EXCEPT !.jobId = j.id,
                                !.startedAt = FormatRFC3339(t),
                                !.status = "running"]
       IN IF UpdateJobOk(jobs, j)
          THEN /\ jobs' = UpdateJob(jobs, j)
               /\ runs' = CreateRun(runs, run, nextRunId)
               /\ nextRunId' = nextRunId + 1
               /\ events' = << Emit, Notify(j.name, "running") >>
               /\ ljob' = [ljob EXCEPT ![p] = j]
               /\ lrun' = [lrun EXCEPT ![p] = runs'[Len(runs')]]
               /\ lnow' = [lnow EXCEPT ![p] = t]
               /\ pc' = [pc EXCEPT ![p] = "exec"]
               /\ UNCHANGED << wg, tjobs, ti >>
          ELSE /\ EndPath(p)
               /\ events' = << >>
               /\ UNCHANGED << jobs, runs, nextRunId >>
    /\ UNCHANGED << now, clockSteps, crashes, execs, started, cancelled, stopPc, stopMidRun >>
    /\ UNCHANGED cli

\* mutant: a detected question parks the job in waiting without storing it
finishExecutionNoQuestion(job, result) ==
    IF result.err
    THEN [job EXCEPT !.status = "failed", !.output = result.errText,
                     !.pendingQuestion = EmptyStr]
    ELSE IF DetectQuestion(result.RawLines) # EmptyStr
         THEN [job EXCEPT !.status = "waiting", !.output = result.Transcript]
         ELSE [job EXCEPT !.status = "success", !.output = result.Transcript,
                          !.pendingQuestion = EmptyStr]

\* mutant: a failed invocation stores the (empty) transcript, not the error
finishExecutionErrTranscript(job, result) ==
    IF result.err
    THEN [job EXCEPT !.status = "failed", !.output = result.Transcript,
                     !.pendingQuestion = EmptyStr]
    ELSE IF DetectQuestion(result.RawLines) # EmptyStr
         THEN [job EXCEPT !.status = "waiting", !.output = result.Transcript,
                          !.pendingQuestion = DetectQuestion(result.RawLines)]
         ELSE [job EXCEPT !.status = "success", !.output = result.Transcript,
                          !.pendingQuestion = EmptyStr]

\* finishExecution: the job fields set from the outcome of the invocation
finishExecution(job, result) ==
    IF result.err
    THEN [job EXCEPT !.status = "failed", !.output = result.errText,
                     !.pendingQuestion = EmptyStr]
    ELSE LET question == DetectQuestion(result.RawLines)
         IN IF question # EmptyStr
            THEN [job EXCEPT !.status = "waiting", !.output = result.Transcript,
                             !.pendingQuestion = question]
            ELSE [job EXCEPT !.status = "success", !.output = result.Transcript,
                             !.pendingQuestion = EmptyStr]

\* finishExecution: the run record as updated from the finished job
FinishedRun(run, job, t) ==
    [run EXCEPT !.status = job.status,
                !.output = job.output,
                !.pendingQuestion = job.pendingQuestion,
                !.endedAt = IF job.status # "waiting" THEN FormatRFC3339(t)
                            ELSE run.endedAt]

\* finishExecution: persist the job, update the run record, prune, emit,
\* notify; then the path ends
Complete(p, j) ==
    /\ jobs' = UpdateJob(jobs, j)
    /\ IF lrun[p].id # 0
       THEN LET updated == UpdateRun(runs, FinishedRun(lrun[p], j, now))
            IN \E K \in PruneKeeps(updated, j.id) : runs' = PruneRuns(updated, j.id, K)
       ELSE UNCHANGED runs
    /\ events' = << Emit, Notify(j.name, j.status) >>
    /\ EndPath(p)

\* mutant: the next-run timestamp is not recomputed
UpdateTimingKeepNext(job, t) == [job EXCEPT !.lastRun = FormatRFC3339(t)]

\* executeJob: the timing fields set after execFn has returned
UpdateTiming(job, t) ==
    [job EXCEPT !.lastRun = FormatRFC3339(t),
                !.nextRun = FormatRFC3339(
                    t + intervalDuration(job.intervalValue, job.intervalUnit))]

\* execFn returns; executeJob sets the timing fields and calls finishExecution
FinishExecute(p) ==
    /\ pc[p] = "exec"
    /\ \E result \in Results :
         Complete(p, finishExecution(UpdateTiming(ljob[p], lnow[p]), result))
    /\ UNCHANGED << nextRunId, now, clockSteps, crashes, execs, started,
                    cancelled, stopPc, stopMidRun >>
    /\ UNCHANGED cli

(***************************************************************************)
(* RunNow.                                                                 *)
(***************************************************************************)
FreeSlots == {p \in Slots : pc[p] = "free"}

\* the status check of RunNow
RunNowRejects(job) == job.status = "running"

RunNow(id) ==
    /\ started
    /\ LET job == GetJob(jobs, id)
       IN IF RunNowRejects(job)
          THEN \* return the error "job is already running"
               UNCHANGED << pc, ljob, wg, execs, events >>
          ELSE /\ FreeSlots # {}
               /\ execs < MaxExecs
               /\ LET p == Min(FreeSlots)
                  IN /\ pc' = [pc EXCEPT ![p] = "mark"]
                     /\ ljob' = [ljob EXCEPT ![p] = job]
               /\ wg' = wg + 1
               /\ execs' = execs + 1
               /\ events' = << >>
    /\ UNCHANGED << jobs, runs, nextRunId, now, clockSteps, crashes, started,
                    cancelled, stopPc, stopMidRun, lrun, lnow, tjobs, ti >>
    /\ UNCHANGED cli

(***************************************************************************)
(* AnswerQuestion.                                                         *)
(***************************************************************************)
\* the status check of AnswerQuestion
AnswerRejects(job) == job.status # "waiting"

\* GetJob and the status check
AnswerQuestion(id) ==
    /\ started
    /\ LET job == GetJob(jobs, id)
       IN IF AnswerRejects(job)
          THEN \* return the error "job is not waiting for an answer"
               UNCHANGED << pc, ljob, execs, events >>
          ELSE /\ FreeSlots # {}
               /\ execs < MaxExecs
               /\ LET p == Min(FreeSlots)
                  IN /\ pc' = [pc EXCEPT ![p] = "aupd"]
                     /\ ljob' = [ljob EXCEPT ![p] = job]
               /\ execs' = execs + 1
               /\ events' = << >>
    /\ UNCHANGED << jobs, runs, nextRunId, now, clockSteps, crashes, started,
                    cancelled, wg, stopPc, stopMidRun, lrun, lnow, tjobs, ti >>
    /\ UNCHANGED cli

\* GetLatestRun: a latest row of the job, or the zero JobRun when it has none
GetLatestRun(rt, jobId) ==
    IF RunsOf(rt, jobId) = {} THEN {NoRun} ELSE {rt[i] : i \in LatestRuns(rt, jobId)}

\* the rest of the call: mark the job running again and clear the question,
\* persist, emit; mark the latest run running, emit; load the MCP servers;
\* launch the goroutine that calls answerFn; return nil
AnswerPersist(p) ==
    /\ pc[p] = "aupd"
    /\ LET j == [ljob[p] EXCEPT !.status = "running", !.pendingQuestion = EmptyStr]
       IN IF UpdateJobOk(jobs, j)
          THEN /\ jobs' = UpdateJob(jobs, j)
               /\ ljob' = [ljob EXCEPT ![p] = j]
               /\ \E latest \in GetLatestRun(runs, j.id) :
                    LET run == [latest EXCEPT !.status = "running",
                                              !.pendingQuestion = EmptyStr]
                    IN IF latest.id # 0
                       THEN /\ runs' = UpdateRun(runs, run)
                            /\ lrun' = [lrun EXCEPT ![p] = run]
                       ELSE /\ UNCHANGED runs
                            /\ lrun' = [lrun EXCEPT ![p] = latest]
               /\ wg' = wg + 1
               /\ pc' = [pc EXCEPT ![p] = "answer"]
               /\ events' = << Emit, Emit >>
          ELSE /\ pc' = [pc EXCEPT ![p] = "free"]
               /\ ljob' = [ljob EXCEPT ![p] = NoJob]
               \* return the error "updating job status: ..."
               /\ events' = << >>
               /\ UNCHANGED << jobs, runs, lrun, wg >>
    /\ UNCHANGED << nextRunId, now, clockSteps, crashes, execs, started,
                    cancelled, stopPc, stopMidRun, lnow, tjobs, ti >>
    /\ UNCHANGED cli

\* mutant: the new transcript comes first
PrependOutputSwapped(run, result) ==
    IF run.id # 0 /\ ~result.err
    THEN [result EXCEPT !.Transcript = Concat(Concat(result.Transcript, Sep), run.output)]
    ELSE result

\* the transcript handed to finishExecution: the run's prior output, a blank
\* line, and the new transcript
PrependOutput(run, result) ==
    IF run.id # 0 /\ ~result.err
    THEN [result EXCEPT !.Transcript = Concat(Concat(run.output, Sep), result.Transcript)]
    ELSE result

\* answerFn returns; the goroutine prepends the prior output and calls
\* finishExecution
AnswerReturn(p) ==
    /\ pc[p] = "answer"
    /\ \E result \in Results :
         Complete(p, finishExecution(ljob[p], PrependOutput(lrun[p], result)))
    /\ UNCHANGED << nextRunId, now, clockSteps, crashes, execs, started,
                    cancelled, stopPc, stopMidRun >>
    /\ UNCHANGED cli

(***************************************************************************)
(* Executor (package executor): ClaudeExecute and ClaudeAnswer.  A call    *)
(* builds the MCP arguments, then invokes the claude CLI through runClaude *)
(* once or twice; cli.invocations lists the invocations made (resume flag, *)
(* session key, turn text), cli.outcomes what runClaude returned for each. *)
(***************************************************************************)
\* the phrase ClaudeExecute looks for, kept as one token
NoConversationFound == Lit("No conversation found", 21)

\* what the CLI writes to standard error when the session to resume is unknown
StderrNoSession == Concat(NoConversationFound, Lit(" with session ID", 16))

\* an error message in the event stream that carries the phrase
ReportedNoSession == Concat(Lit("Error: ", 7), NoConversationFound)

\* one run of the CLI as runClaude sees it: whether cmd.Wait failed, the message
\* extractError finds in the output lines, the trimmed standard error, and the
\* result built from the output lines of a run that exited with zero
CliRuns ==
    [failed : BOOLEAN,
     reported : {EmptyStr, ErrText, ReportedNoSession},
     stderr : {EmptyStr, ErrText, StderrNoSession},
     stdout : {EmptyStr},
     result : {ResOk, ResQuestion}]

\* the parts of runClaude's own error message, joined with "\n"
ErrorParts(run) ==
    IF run.stderr # EmptyStr /\ run.stdout # EmptyStr
    THEN Concat(run.stderr, Concat(Newlines(1), run.stdout))
    ELSE IF run.stderr # EmptyStr THEN run.stderr
    ELSE IF run.stdout # EmptyStr THEN run.stdout
    ELSE Lit("exit status 1", 13)

\* mutant: the error stream comes before the message found in the events
runClaudeStderrFirst(run) ==
    IF run.failed
    THEN IF run.stderr # EmptyStr \/ run.reported = EmptyStr
         THEN Result(TRUE, Concat(Lit("claude: ", 8), ErrorParts(run)), EmptyStr, << >>)
         ELSE Result(TRUE, run.reported, EmptyStr, << >>)
    ELSE run.result

\* runClaude, from cmd.Wait on
runClaude(run) ==
    IF run.failed
    THEN IF run.reported # EmptyStr
         THEN Result(TRUE, run.reported, EmptyStr, << >>)
         ELSE Result(TRUE, Concat(Lit("claude: ", 8), ErrorParts(run)), EmptyStr, << >>)
    ELSE run.result

\* mutant: without a transcript the invocation fails
TranscribedOrNothing(lines) ==
    IF buildTranscript(lines) = EmptyStr
    THEN Result(TRUE, Lit("empty response from claude", 26), EmptyStr, << >>)
    ELSE Result(FALSE, EmptyStr, buildTranscript(lines), lines)

\* runClaude after a zero exit: the transcript, or the raw lines when the
\* transcript is empty, or an error when there is no output at all
Transcribed(lines) ==
    LET transcript == buildTranscript(lines)
        raw == JoinLines(lines)
    IN IF transcript = EmptyStr
       THEN IF raw = EmptyStr
            THEN Result(TRUE, Lit("empty response from claude", 26), EmptyStr, << >>)
            ELSE Result(FALSE, EmptyStr, raw, lines)
       ELSE Result(FALSE, EmptyStr, transcript, lines)

\* what runClaude sees of a run of the CLI that wrote the lines to standard
\* output
CliRun(failed, lines, stderr) ==
    [failed |-> failed,
     reported |-> extractError(lines),
     stderr |-> TrimSpace(stderr),
     stdout |-> TrimSpace(JoinLines(lines)),
     result |-> Transcribed(lines)]

\* what one runClaude call can return
CliOutcomes == {runClaude(run) : run \in CliRuns}

\* the error of ClaudeExecute / ClaudeAnswer when buildMCPArgs fails
ErrConfig == Lit("building MCP config: ", 21)

Prompts == {"prompt A", "prompt B", "prompt C"}
Answers == {"answer A", "answer B"}

\* the arguments of one invocation that tell the invocations apart:
\* "-p" turn, and "--resume" session when resume
Invocation(resume, session, turn) ==
    [resume |-> resume, session |-> session, turn |-> turn]

\* mutant: any failure of the resume attempt starts a fresh session
needsFreshOnAnyError(outcome) == outcome.err

\* ClaudeExecute: err != nil && strings.Contains(err.Error(), "No conversation found")
needsFresh(outcome) == outcome.err /\ Contains(outcome.errText, NoConversationFound)

\* the number of MCP servers attached to a job, at most
MaxServers == 2

\* where buildMCPArgs can fail; "malformed" is a server whose args, env or
\* headers field is not valid JSON: the field is left out and nothing fails
BuildFaults == {"none", "malformed", "marshal", "create", "write"}

BuildErrText(fault) ==
    CASE fault = "marshal" -> Lit("marshalling MCP config: ", 24)
      [] fault = "create" -> Lit("creating MCP temp file: ", 24)
      [] fault = "write" -> Lit("writing MCP config: ", 20)
      [] OTHER -> EmptyStr

\* mutant: a failed write leaves the temporary file behind
buildMCPArgsLeaky(servers, fault) ==
    IF servers = 0
    THEN [err |-> FALSE, errText |-> EmptyStr, file |-> FALSE, created |-> FALSE,
          cleanup |-> "noop"]
    ELSE IF fault \in {"marshal", "create"}
    THEN [err |-> TRUE, errText |-> BuildErrText(fault), file |-> FALSE,
          created |-> FALSE, cleanup |-> "noop"]
    ELSE IF fault = "write"
    THEN [err |-> TRUE, errText |-> BuildErrText(fault), file |-> TRUE,
          created |-> TRUE, cleanup |-> "noop"]
    ELSE [err |-> FALSE, errText |-> EmptyStr, file |-> TRUE, created |-> TRUE,
          cleanup |-> "remove"]

\* buildMCPArgs: whether it failed and with what, whether the temporary file
\* exists when it returns, whether it was ever created, and the cleanup
\* function it returns (noop, or the removal of the file)
buildMCPArgs(servers, fault) ==
    IF servers = 0
    THEN [err |-> FALSE, errText |-> EmptyStr, file |-> FALSE, created |-> FALSE,
          cleanup |-> "noop"]
    ELSE IF fault \in {"marshal", "create"}
    THEN [err |-> TRUE, errText |-> BuildErrText(fault), file |-> FALSE,
          created |-> FALSE, cleanup |-> "noop"]
    ELSE IF fault = "write"
    THEN \* f.Close(); os.Remove(f.Name())
         [err |-> TRUE, errText |-> BuildErrText(fault), file |-> FALSE,
          created |-> TRUE, cleanup |-> "noop"]
    ELSE [err |-> FALSE, errText |-> EmptyStr, file |-> TRUE, created |-> TRUE,
          cleanup |-> "remove"]

\* mutant: the cleanup function is not run when the call returns
runCleanupNever(cleanup, file) == file

\* defer cleanup(): whether the temporary file exists after the call returned
runCleanup(cleanup, file) == IF cleanup = "remove" THEN FALSE ELSE file

\* the call starts: buildMCPArgs; on an error the call returns it wrapped,
\* otherwise the resume invocation is started
BeginCall(kind, id, turn, servers, fault) ==
    LET b == buildMCPArgs(servers, fault)
        c == [CliIdle EXCEPT !.kind = kind, !.id = id, !.turn = turn,
                             !.servers = servers, !.fault = fault,
                             !.created = b.created]
    IN IF b.err
       THEN [c EXCEPT !.pc = "done",
                      !.file = b.file,
                      !.result = Result(TRUE, Concat(ErrConfig, b.errText), EmptyStr, << >>)]
       ELSE [c EXCEPT !.pc = "resume", !.built = TRUE, !.file = b.file,
                      !.cleanup = b.cleanup,
                      !.invocations = << Invocation(TRUE, id, turn) >>]

\* the call returns the outcome of its last invocation; the deferred cleanup
\* runs
EndCall(c, outcome) ==
    [c EXCEPT !.pc = "done",
              !.outcomes = Append(@, outcome),
              !.result = outcome,
              !.file = runCleanup(c.cleanup, c.file)]

\* ClaudeExecute is called: buildMCPArgs, then the resume attempt is started
ClaudeExecuteCall ==
    /\ cli.pc = "idle"
    /\ \E id \in JobIds, prompt \in Prompts, servers \in 0..MaxServers,
          fault \in BuildFaults :
         cli' = BeginCall("execute", id, prompt, servers, fault)
    /\ UNCHANGED schedVars

\* the resume attempt returns: fall back to a fresh session, or return
ClaudeExecuteResumed ==
    /\ cli.pc = "resume" /\ cli.kind = "execute"
    /\ \E outcome \in CliOutcomes :
         cli' = IF needsFresh(outcome)
                THEN [cli EXCEPT !.pc = "fresh",
                                 !.outcomes = Append(@, outcome),
                                 !.invocations = Append(@, Invocation(FALSE, 0, cli.turn))]
                ELSE EndCall(cli, outcome)
    /\ UNCHANGED schedVars

\* the fresh-session invocation returns; ClaudeExecute returns its result
ClaudeExecuteFreshed ==
    /\ cli.pc = "fresh"
    /\ \E outcome \in CliOutcomes : cli' = EndCall(cli, outcome)
    /\ UNCHANGED schedVars

\* mutant: ClaudeAnswer falls back to a fresh session as ClaudeExecute does
answerFallsBackToo(outcome) == needsFresh(outcome)

\* ClaudeAnswer has no fallback: the outcome of the resume is returned
answerFallsBack(outcome) == FALSE

\* ClaudeAnswer is called: buildMCPArgs, then the resume with the answer
ClaudeAnswerCall ==
    /\ cli.pc = "idle"
    /\ \E id \in JobIds, answer \in Answers, servers \in 0..MaxServers,
          fault \in BuildFaults :
         cli' = BeginCall("answer", id, answer, servers, fault)
    /\ UNCHANGED schedVars

\* the resume returns; ClaudeAnswer returns its result
ClaudeAnswerResumed ==
    /\ cli.pc = "resume" /\ cli.kind = "answer"
    /\ \E outcome \in CliOutcomes :
         cli' = IF answerFallsBack(outcome)
                THEN [cli EXCEPT !.pc = "fresh",
                                 !.outcomes = Append(@, outcome),
                                 !.invocations = Append(@, Invocation(FALSE, 0, cli.turn))]
                ELSE EndCall(cli, outcome)
    /\ UNCHANGED schedVars

\* executeJob calls execFn (ClaudeExecute) with the job it has marked running
\* and the servers it has loaded
ExecInvoke(p) ==
    /\ pc[p] = "exec"
    /\ cli.pc = "idle"
    /\ \E prompt \in Prompts, servers \in 0..MaxServers, fault \in BuildFaults :
         cli' = BeginCall("execute", ljob[p].id, prompt, servers, fault)
    /\ UNCHANGED schedVars

\* ClaudeExecute has returned to executeJob: the timing fields are set and
\* finishExecution handles the result
ExecReturn(p) ==
    /\ pc[p] = "exec"
    /\ cli.pc = "done" /\ cli.kind = "execute" /\ cli.id = ljob[p].id
    /\ Complete(p, finishExecution(UpdateTiming(ljob[p], lnow[p]), cli.result))
    /\ cli' = CliIdle
    /\ UNCHANGED << nextRunId, now, clockSteps, crashes, execs, started,
                    cancelled, stopPc, stopMidRun >>

\* the tick path with ClaudeExecute as the execution function
NextExec ==
    \/ Start
    \/ TickLoad
    \/ TickScan
    \/ BeginExecute(Loop)
    \/ ExecInvoke(Loop)
    \/ ClaudeExecuteResumed
    \/ ClaudeExecuteFreshed
    \/ ExecReturn(Loop)

SpecExec == Init /\ [][NextExec]_vars

(***************************************************************************)
(* executeJob statement by statement, up to the call of execFn: the store  *)
(* write that marks the job running (it can return an error), the change   *)
(* event and the notification, the creation of the run record.             *)
(***************************************************************************)
\* mutant: executeJob goes on after a failed store write
returnsOnErrorNever(written) == FALSE

\* if _, err := s.store.UpdateJob(*job); err != nil { ...; return }
returnsOnError(written) == ~written

\* executeJob: set the fields of the local job and persist it; ok is whether
\* the database executes the statement
ExecuteJobPersist(p) ==
    /\ pc[p] = "mark"
    /\ \E ok \in BOOLEAN :
         LET j == [ljob[p] EXCEPT !.status = "running", !.output = EmptyStr,
                                  !.pendingQuestion = EmptyStr]
             written == ok /\ UpdateJobOk(jobs, j)
         IN /\ jobs' = IF written THEN UpdateJob(jobs, j) ELSE jobs
            /\ IF returnsOnError(written)
               THEN EndPath(p)
               ELSE /\ ljob' = [ljob EXCEPT ![p] = j]
                    /\ lnow' = [lnow EXCEPT ![p] = IF p = Loop THEN lnow[p] ELSE now]
                    /\ pc' = [pc EXCEPT ![p] = "memit"]
                    /\ UNCHANGED << wg, tjobs, ti, lrun >>
    /\ events' = << >>
    /\ UNCHANGED << runs, nextRunId, now, clockSteps, crashes, execs, started,
                    cancelled, stopPc, stopMidRun >>
    /\ UNCHANGED cli

\* executeJob: s.emit(); s.notify(job.Name, "running")
ExecuteJobNotify(p) ==
    /\ pc[p] = "memit"
    /\ events' = << Emit, Notify(ljob[p].name, "running") >>
    /\ pc' = [pc EXCEPT ![p] = "mrun"]
    /\ UNCHANGED << jobs, runs, nextRunId, now, clockSteps, crashes, execs, started,
                    cancelled, wg, stopPc, stopMidRun, ljob, lrun, lnow, tjobs, ti >>
    /\ UNCHANGED cli

\* executeJob: s.store.CreateRun, then the MCP servers are loaded
ExecuteJobCreateRun(p) ==
    /\ pc[p] = "mrun"
    /\ LET run == [NoRun EXCEPT !.jobId = ljob[p].id,
                                !.startedAt = FormatRFC3339(lnow[p]),
                                !.status = "running"]
       IN /\ runs' = CreateRun(runs, run, nextRunId)
          /\ nextRunId' = nextRunId + 1
          /\ lrun' = [lrun EXCEPT ![p] = runs'[Len(runs')]]
    /\ events' = << >>
    /\ pc' = [pc EXCEPT ![p] = "exec"]
    /\ UNCHANGED << jobs, now, clockSteps, crashes, execs, started, cancelled, wg,
                    stopPc, stopMidRun, ljob, lnow, tjobs, ti >>
    /\ UNCHANGED cli

NextSteps ==
    \/ Start
    \/ TickLoad
    \/ TickScan
    \/ ExecuteJobPersist(Loop)
    \/ ExecuteJobNotify(Loop)
    \/ ExecuteJobCreateRun(Loop)
    \/ ExecInvoke(Loop)
    \/ ClaudeExecuteResumed
    \/ ClaudeExecuteFreshed
    \/ ExecReturn(Loop)

SpecSteps == Init /\ [][NextSteps]_vars

\* the caller has taken the result
CliReturn ==
    /\ cli.pc = "done"
    /\ cli' = CliIdle
    /\ UNCHANGED schedVars

NextCli ==
    \/ ClaudeExecuteCall
    \/ ClaudeExecuteResumed
    \/ ClaudeExecuteFreshed
    \/ ClaudeAnswerCall
    \/ ClaudeAnswerResumed
    \/ CliReturn

SpecCli == Init /\ [][NextCli]_vars

(***************************************************************************)
(* Specification.                                                          *)
(***************************************************************************)
Next ==
    \/ AdvanceClock
    \/ Crash
    \/ Start
    \/ StopCancel
    \/ StopReturn
    \/ TickLoad
    \/ TickScan
    \/ LoopExit
    \/ \E p \in Procs : BeginExecute(p)
    \/ \E p \in Procs : FinishExecute(p)
    \/ \E id \in JobIds : RunNow(id)
    \/ \E id \in JobIds : AnswerQuestion(id)
    \/ \E p \in Slots : AnswerPersist(p)
    \/ \E p \in Slots : AnswerReturn(p)

Spec == Init /\ [][Next]_vars

(***************************************************************************)
(* Scheduling.  Every goroutine that can take a step eventually takes it:  *)
(* the loop goroutine runs its first tick, goes through the job list and,  *)
(* in its select, takes the case <-s.ctx.Done() (the select chooses at     *)
(* random among the ready cases, and between two firings of the ticker     *)
(* only that case is ready); a launched goroutine runs; wg.Wait() returns  *)
(* once the counter is zero.  An executor invocation is only assumed to    *)
(* return when its context is cancelled.                                   *)
(***************************************************************************)
Fairness ==
    /\ WF_vars(TickLoad)
    /\ WF_vars(TickScan)
    /\ SF_vars(LoopExit)
    /\ WF_vars(StopReturn)
    /\ \A p \in Procs : WF_vars(BeginExecute(p))
    /\ \A p \in Procs : WF_vars(cancelled /\ FinishExecute(p))
    /\ \A p \in Slots : WF_vars(AnswerPersist(p))
    /\ \A p \in Slots : WF_vars(cancelled /\ AnswerReturn(p))

\* one life of the process at one instant of the clock
NextLife ==
    \/ Start
    \/ StopCancel
    \/ StopReturn
    \/ TickLoad
    \/ TickScan
    \/ LoopExit
    \/ \E p \in Procs : BeginExecute(p)
    \/ \E p \in Procs : FinishExecute(p)
    \/ \E id \in JobIds : RunNow(id)
    \/ \E id \in JobIds : AnswerQuestion(id)
    \/ \E p \in Slots : AnswerPersist(p)
    \/ \E p \in Slots : AnswerReturn(p)

SpecFair == Init /\ [][NextLife]_vars /\ Fairness

(***************************************************************************)
(* Executions that always return, in a process that can die and is then    *)
(* started again: every launched goroutine runs, every invocation of the   *)
(* orchestrator returns, and a dead process is restarted.                  *)
(***************************************************************************)
FairnessReturns ==
    /\ WF_vars(Start)
    /\ WF_vars(TickLoad)
    /\ WF_vars(TickScan)
    /\ \A p \in Procs : WF_vars(BeginExecute(p))
    /\ \A p \in Procs : WF_vars(FinishExecute(p))
    /\ \A p \in Slots : WF_vars(AnswerPersist(p))
    /\ \A p \in Slots : WF_vars(AnswerReturn(p))

NextReturns ==
    \/ Crash
    \/ Start
    \/ TickLoad
    \/ TickScan
    \/ \E p \in Procs : BeginExecute(p)
    \/ \E p \in Procs : FinishExecute(p)
    \/ \E id \in JobIds : RunNow(id)
    \/ \E id \in JobIds : AnswerQuestion(id)
    \/ \E p \in Slots : AnswerPersist(p)
    \/ \E p \in Slots : AnswerReturn(p)

SpecReturns == Init /\ [][NextReturns]_vars /\ FairnessReturns

(***************************************************************************)
(* A second starting point: the database as an earlier life of the process *)
(* left it after job 1 ran once (tick at instant Minute) and asked a       *)
(* question - job 1 parked in waiting, its run record waiting - and the    *)
(* process not yet started.                                                *)
(***************************************************************************)
ParkedJob ==
    finishExecution(
        UpdateTiming([CreateJob(1) EXCEPT !.status = "running"], Minute),
        ResQuestion)

ParkedRun ==
    FinishedRun([NoRun EXCEPT !.id = 1, !.jobId = 1,
                              !.startedAt = FormatRFC3339(Minute),
                              !.status = "running"],
                ParkedJob, Minute)

InitAnswer ==
    /\ jobs = [id \in JobIds |-> IF id = 1 THEN ParkedJob ELSE CreateJob(id)]
    /\ runs = << ParkedRun >>
    /\ nextRunId = 2
    /\ now = Minute
    /\ clockSteps = 0
    /\ crashes = 0
    /\ execs = 0
    /\ started = FALSE
    /\ cancelled = FALSE
    /\ wg = 0
    /\ stopPc = "none"
    /\ stopMidRun = FALSE
    /\ pc = [p \in Procs |-> IF p = Loop THEN "off" ELSE "free"]
    /\ ljob = [p \in Procs |-> NoJob]
    /\ lrun = [p \in Procs |-> NoRun]
    /\ lnow = [p \in Procs |-> 0]
    /\ tjobs = << >>
    /\ ti = 0
    /\ events = << >>
    /\ cli = CliIdle

SpecAnswer == InitAnswer /\ [][Next]_vars

(***************************************************************************)
(* The tick path alone: no RunNow and no AnswerQuestion call is made, so   *)
(* every run record is one the tick path created.                          *)
(***************************************************************************)
NextTick ==
    \/ AdvanceClock
    \/ Crash
    \/ Start
    \/ StopCancel
    \/ StopReturn
    \/ TickLoad
    \/ TickScan
    \/ LoopExit
    \/ BeginExecute(Loop)
    \/ FinishExecute(Loop)

SpecTick == Init /\ [][NextTick]_vars

(***************************************************************************)
(* The tick path with a user who edits jobs through App.UpdateJob.         *)
(***************************************************************************)
\* App.UpdateJob: the row the frontend holds, with the edited name, active
\* flag and interval, is written whole by Store.UpdateJob
UserUpdateJob(id) ==
    /\ \E n \in {id, id + NumJobs}, a \in BOOLEAN, iv \in {1, 2} :
         LET j == [GetJob(jobs, id) EXCEPT !.name = n, !.active = a,
                                          !.intervalValue = iv]
         IN /\ j # GetJob(jobs, id)
            /\ jobs' = UpdateJob(jobs, j)
    /\ events' = << >>
    /\ UNCHANGED << runs, nextRunId, now, clockSteps, crashes, execs, started,
                    cancelled, wg, stopPc, stopMidRun, pc, ljob, lrun, lnow,
                    tjobs, ti >>
    /\ UNCHANGED cli

NextEdit ==
    \/ Start
    \/ TickLoad
    \/ TickScan
    \/ BeginExecute(Loop)
    \/ FinishExecute(Loop)
    \/ \E id \in JobIds : UserUpdateJob(id)

SpecEdit == Init /\ [][NextEdit]_vars

(***************************************************************************)
(* The tick path over jobs of which some are never due: inactive, with an  *)
(* interval of an hour, or without a start date.                           *)
(***************************************************************************)
SkipJobs(id) ==
    {[CreateJob(id) EXCEPT !.active = a, !.intervalUnit = u, !.startDate = sd] :
        a \in BOOLEAN, u \in {"minutes", "hours"}, sd \in {FormatLocal(0), NoTime}}

InitSkip ==
    /\ jobs \in {jt \in [JobIds -> UNION {SkipJobs(id) : id \in JobIds}] :
                    \A id \in JobIds : jt[id].id = id}
    /\ runs = << >>
    /\ nextRunId = 1
    /\ now = Minute
    /\ clockSteps = 0
    /\ crashes = 0
    /\ execs = 0
    /\ started = FALSE
    /\ cancelled = FALSE
    /\ wg = 0
    /\ stopPc = "none"
    /\ stopMidRun = FALSE
    /\ pc = [p \in Procs |-> IF p = Loop THEN "off" ELSE "free"]
    /\ ljob = [p \in Procs |-> NoJob]
    /\ lrun = [p \in Procs |-> NoRun]
    /\ lnow = [p \in Procs |-> 0]
    /\ tjobs = << >>
    /\ ti = 0
    /\ events = << >>
    /\ cli = CliIdle

SpecSkip == InitSkip /\ [][NextTick]_vars

(***************************************************************************)
(* The Execute path in finer steps: the write of the job row and the       *)
(* change event that follows it are two steps of the goroutine, between     *)
(* which the other goroutines and calls can act.                            *)
(***************************************************************************)
\* executeJob: mark the job running and persist it
MarkRunning(p) ==
    /\ pc[p] = "mark"
    /\ LET j == [ljob[p] EXCEPT !.status = "running", !.output = EmptyStr,
                                !.pendingQuestion = EmptyStr]
       IN IF UpdateJobOk(jobs, j)
          THEN /\ jobs' = UpdateJob(jobs, j)
               /\ ljob' = [ljob EXCEPT ![p] = j]
               /\ lnow' = [lnow EXCEPT ![p] = IF p = Loop THEN lnow[p] ELSE now]
               /\ pc' = [pc EXCEPT ![p] = "memit"]
               /\ UNCHANGED << wg, tjobs, ti, lrun >>
          ELSE /\ EndPath(p)
               /\ UNCHANGED jobs
    /\ events' = << >>
    /\ UNCHANGED << runs, nextRunId, now, clockSteps, crashes, execs, started,
                    cancelled, stopPc, stopMidRun >>
    /\ UNCHANGED cli

\* executeJob: emit, notify running, create the run record, call execFn
MarkEmit(p) ==
    /\ pc[p] = "memit"
    /\ LET run == [NoRun EXCEPT !.jobId = ljob[p].id,
                                !.startedAt = FormatRFC3339(lnow[p]),
                                !.status = "running"]
       IN /\ runs' = CreateRun(runs, run, nextRunId)
          /\ nextRunId' = nextRunId + 1
          /\ lrun' = [lrun EXCEPT ![p] = runs'[Len(runs')]]
    /\ events' = << Emit, Notify(ljob[p].name, "running") >>
    /\ pc' = [pc EXCEPT ![p] = "exec"]
    /\ UNCHANGED << jobs, now, clockSteps, crashes, execs, started, cancelled, wg,
                    stopPc, stopMidRun, ljob, lnow, tjobs, ti >>
    /\ UNCHANGED cli

\* execFn returns; executeJob sets the timing fields; finishExecution persists
\* the job, updates the run record and prunes
FinishPersist(p) ==
    /\ pc[p] = "exec"
    /\ \E result \in Results :
         LET j == finishExecution(UpdateTiming(ljob[p], lnow[p]), result)
             updated == UpdateRun(runs, FinishedRun(lrun[p], j, now))
         IN /\ jobs' = UpdateJob(jobs, j)
            /\ ljob' = [ljob EXCEPT ![p] = j]
            /\ \E K \in PruneKeeps(updated, j.id) : runs' = PruneRuns(updated, j.id, K)
    /\ events' = << >>
    /\ pc' = [pc EXCEPT ![p] = "femit"]
    /\ UNCHANGED << nextRunId, now, clockSteps, crashes, execs, started, cancelled,
                    wg, stopPc, stopMidRun, lrun, lnow, tjobs, ti >>
    /\ UNCHANGED cli

\* finishExecution: emit, notify; the path ends
FinishEmit(p) ==
    /\ pc[p] = "femit"
    /\ events' = << Emit, Notify(ljob[p].name, ljob[p].status) >>
    /\ EndPath(p)
    /\ UNCHANGED << jobs, runs, nextRunId, now, clockSteps, crashes, execs, started,
                    cancelled, stopPc, stopMidRun >>
    /\ UNCHANGED cli

NextFine ==
    \/ Start
    \/ TickLoad
    \/ TickScan
    \/ \E id \in JobIds : RunNow(id)
    \/ \E p \in Procs : MarkRunning(p)
    \/ \E p \in Procs : MarkEmit(p)
    \/ \E p \in Procs : FinishPersist(p)
    \/ \E p \in Procs : FinishEmit(p)

SpecFine == Init /\ [][NextFine]_vars

(***************************************************************************)
(* isDue on its own: a tick that has loaded one job, any job value of      *)
(* DueJobs, at a tick time around the instant 2 * Minute at which the jobs  *)
(* with reference Minute and interval one minute fall due.                 *)
(***************************************************************************)
DueIntervals ==
    {<< 1, "minutes" >>, << 2, "minutes" >>, << 1, "hours" >>,
     << 1, "fortnights" >>, << 0, "minutes" >>}

DueStatuses == {"pending", "running", "waiting", "success", "failed"}

DueStartDates ==
    {NoTime, BadTime, FormatLocal(0), FormatLocal(Minute), FormatLocal(3 * Minute)}

DueLastRuns == {NoTime, BadTime, FormatRFC3339(0), FormatRFC3339(Minute)}

DueJobs ==
    {[CreateJob(1) EXCEPT !.active = a, !.status = st,
                          !.intervalValue = iv[1], !.intervalUnit = iv[2],
                          !.startDate = sd, !.lastRun = lr,
                          !.pendingQuestion = IF st = "waiting" THEN Q1 ELSE EmptyStr] :
        a \in BOOLEAN, st \in DueStatuses, iv \in DueIntervals,
        sd \in DueStartDates, lr \in DueLastRuns}

DueTimes == {2 * Minute - 1, 2 * Minute, 2 * Minute + 1}

InitDue ==
    /\ jobs = [id \in JobIds |-> CreateJob(id)]
    /\ runs = << >>
    /\ nextRunId = 1
    /\ now \in DueTimes
    /\ clockSteps = 0
    /\ crashes = 0
    /\ execs = 0
    /\ started = TRUE
    /\ cancelled = FALSE
    /\ wg = 1
    /\ stopPc = "none"
    /\ stopMidRun = FALSE
    /\ pc = [p \in Procs |-> IF p = Loop THEN "scan" ELSE "free"]
    /\ ljob = [p \in Procs |-> NoJob]
    /\ lrun = [p \in Procs |-> NoRun]
    /\ lnow = [p \in Procs |-> IF p = Loop THEN now ELSE 0]
    /\ tjobs \in {<< j >> : j \in DueJobs}
    /\ ti = 1
    /\ events = << >>
    /\ cli = CliIdle

NextDue ==
    \/ TickScan
    \/ BeginExecute(Loop)
    \/ FinishExecute(Loop)

SpecDue == InitDue /\ [][NextDue]_vars

(***************************************************************************)
(* A full run history: job 1 has been run maxRunsPerJob times, a second    *)
(* apart, and the process is not yet started.                              *)
(***************************************************************************)
HistoryRun(k) ==
    FinishedRun([NoRun EXCEPT !.id = k, !.jobId = 1,
                              !.startedAt = FormatRFC3339(k * Second),
                              !.status = "running"],
                finishExecution([CreateJob(1) EXCEPT !.status = "running"], ResOk),
                k * Second)

InitPrune ==
    /\ jobs = [id \in JobIds |->
                 IF id = 1
                 THEN finishExecution(
                          UpdateTiming([CreateJob(1) EXCEPT !.status = "running"],
                                       maxRunsPerJob * Second),
                          ResOk)
                 ELSE CreateJob(id)]
    /\ runs = [k \in 1..maxRunsPerJob |-> HistoryRun(k)]
    /\ nextRunId = maxRunsPerJob + 1
    /\ now = Minute
    /\ clockSteps = 0
    /\ crashes = 0
    /\ execs = 0
    /\ started = FALSE
    /\ cancelled = FALSE
    /\ wg = 0
    /\ stopPc = "none"
    /\ stopMidRun = FALSE
    /\ pc = [p \in Procs |-> IF p = Loop THEN "off" ELSE "free"]
    /\ ljob = [p \in Procs |-> NoJob]
    /\ lrun = [p \in Procs |-> NoRun]
    /\ lnow = [p \in Procs |-> 0]
    /\ tjobs = << >>
    /\ ti = 0
    /\ events = << >>
    /\ cli = CliIdle

SpecPrune == InitPrune /\ [][Next]_vars

(***************************************************************************)
(* The event stream of one agent run, from runClaude to finishExecution:   *)
(* job 1 is being executed by the tick (execFn has been called), the CLI   *)
(* writes the lines and exits, runClaude builds the result, executeJob     *)
(* finishes the execution with it.                                         *)
(***************************************************************************)
MaxLines == 3

TextBlockOf(text) == [TextBlock EXCEPT !.text = text]
ResultLineOf(text, isError) == [ResultLine EXCEPT !.result = text, !.isError = isError]

\* a text that brings the transcript of one text block to d bytes above the
\* output cap
BigText(d) == Lit("x", maxOutputBytes - 161 + d)

\* lines that do not parse, are blank or are empty, system events, assistant events
\* without a message, with a text (with spaces around it), with a text and a
\* tool invocation, with question invocations (one question, an empty list,
\* two questions), with texts around the output cap, and result events
\* (echoing the text, another text, blank, flagged with and without message)
StreamLines ==
    LET t1 == Lit("a", 4)
        t2 == Lit("b", 3)
        bash == [raw |-> Lit("i", 6), parses |-> FALSE, questions |-> 0]
        two == [raw |-> Lit("r", 9), parses |-> TRUE, questions |-> 2]
    IN {BadLine,
        [BadLine EXCEPT !.raw = Lit(" ", 2)],
        [BadLine EXCEPT !.raw = EmptyStr],
        Event("system", FALSE, << >>, EmptyStr, FALSE, Lit("{system}", 8)),
        Event("assistant", FALSE, << >>, EmptyStr, FALSE, Lit("{assistant}", 11)),
        AssistantLine(<< TextBlockOf(Concat(Lit(" ", 1), Concat(t1, Lit("\n", 1)))) >>),
        AssistantLine(<< TextBlockOf(t2), ToolBlock("Bash", bash) >>),
        AssistantLine(<< ToolBlock("AskUserQuestion", QuestionInput(1)) >>),
        AssistantLine(<< ToolBlock("AskUserQuestion", QuestionInput(0)) >>),
        AssistantLine(<< ToolBlock("AskUserQuestion", two), TextBlockOf(EmptyStr) >>),
        AssistantLine(<< TextBlockOf(BigText(-1)) >>),
        AssistantLine(<< TextBlockOf(BigText(0)) >>),
        AssistantLine(<< TextBlockOf(BigText(1)) >>),
        ResultLineOf(t1, FALSE),
        ResultLineOf(t2, FALSE),
        ResultLineOf(Lit(" ", 3), FALSE),
        ResultLineOf(ErrText, TRUE),
        ResultLineOf(EmptyStr, TRUE)}

StreamInputs ==
    [pc : {"lines"},
     failed : BOOLEAN,
     stderr : {EmptyStr, ErrText, Newlines(1)},
     lines : UNION {[1..n -> StreamLines] : n \in 0..MaxLines},
     outcome : {NoResult}]

StreamJob == [CreateJob(1) EXCEPT !.status = "running"]
StreamRun ==
    [NoRun EXCEPT !.id = 1, !.jobId = 1, !.startedAt = FormatRFC3339(Minute),
                  !.status = "running"]

InitStream ==
    /\ jobs = [id \in JobIds |-> IF id = 1 THEN StreamJob ELSE CreateJob(id)]
    /\ runs = << StreamRun >>
    /\ nextRunId = 2
    /\ now = Minute
    /\ clockSteps = 0
    /\ crashes = 0
    /\ execs = 1
    /\ started = TRUE
    /\ cancelled = FALSE
    /\ wg = 1
    /\ stopPc = "none"
    /\ stopMidRun = FALSE
    /\ pc = [p \in Procs |-> IF p = Loop THEN "exec" ELSE "free"]
    /\ ljob = [p \in Procs |-> IF p = Loop THEN StreamJob ELSE NoJob]
    /\ lrun = [p \in Procs |-> IF p = Loop THEN StreamRun ELSE NoRun]
    /\ lnow = [p \in Procs |-> IF p = Loop THEN Minute ELSE 0]
    /\ tjobs = << CreateJob(1) >>
    /\ ti = 1
    /\ events = << >>
    /\ cli \in StreamInputs

\* the CLI has exited; runClaude returns
StreamInvoke ==
    /\ cli.pc = "lines"
    /\ cli' = [cli EXCEPT !.pc = "ran",
                          !.outcome = runClaude(CliRun(cli.failed, cli.lines, cli.stderr))]
    /\ UNCHANGED schedVars

\* execFn returns that result; executeJob sets the timing fields and calls
\* finishExecution
StreamFinish ==
    /\ cli.pc = "ran"
    /\ pc[Loop] = "exec"
    /\ Complete(Loop, finishExecution(UpdateTiming(ljob[Loop], lnow[Loop]), cli.outcome))
    /\ cli' = [cli EXCEPT !.pc = "finished"]
    /\ UNCHANGED << nextRunId, now, clockSteps, crashes, execs, started,
                    cancelled, stopPc, stopMidRun >>

NextStream == StreamInvoke \/ StreamFinish

SpecStream == InitStream /\ [][NextStream]_vars

(***************************************************************************)
(* Properties.                                                             *)
(***************************************************************************)
\* the paths that have marked job id running and have not completed
Executing(id) == {p \in Procs : pc[p] \in {"exec", "answer"} /\ ljob[p].id = id}

\* the row of run id in table rt (the zero JobRun when it is gone)
RunRow(rt, id) == IF RunIdx(rt, id) = {} THEN NoRun ELSE rt[Min(RunIdx(rt, id))]

\* p completes an execution in this step (finishExecution has run)
Completes(p) ==
    /\ pc[p] \in {"exec", "answer"}
    /\ pc'[p] \notin {"exec", "answer"}
    /\ crashes' = crashes

\* C1: single owner per job - in every reachable state at most one execution
\* path (tick Execute, RunNow Execute, answer resumption) is in flight for a
\* job.
C1_SingleOwner == \A id \in JobIds : Cardinality(Executing(id)) <= 1

\* C2: whenever the tick calls executeJob for a job, the job's persisted
\* status at that moment is not running.
C2_TickNeverPicksRunning ==
    [][(pc[Loop] = "scan" /\ pc'[Loop] = "mark")
         => jobs[ljob'[Loop].id].status # "running"]_vars

\* C3: every change of a job's persisted status follows the state machine:
\* running only over pending/success/failed, or over waiting by an accepted
\* AnswerQuestion; success, failed, waiting only over running; a job leaves
\* waiting, and its question is cleared, only through an accepted
\* AnswerQuestion for that job.
AnswerAccepted(id) ==
    \E p \in Slots : pc[p] = "aupd" /\ pc'[p] = "answer" /\ ljob[p].id = id

C3_StateMachine ==
    [][\A id \in JobIds :
         LET a == jobs[id].status
             b == jobs'[id].status
         IN /\ (a # b /\ b = "running")
                  => \/ a \in {"pending", "success", "failed"}
                     \/ (a = "waiting" /\ AnswerAccepted(id))
            /\ (a # b /\ b \in {"success", "failed", "waiting"}) => a = "running"
            /\ (a = "waiting" /\ jobs'[id] # jobs[id]) => AnswerAccepted(id)]_vars

C5_Outcome(p, result) ==
    LET j == jobs'[ljob[p].id]
        question == DetectQuestion(result.RawLines)
        transcript == IF pc[p] = "answer" /\ lrun[p].id # 0
                      THEN Concat(lrun[p].output, Concat(Sep, result.Transcript))
                      ELSE result.Transcript
    IN IF result.err
       THEN j.status = "failed" /\ j.output = result.errText
            /\ j.pendingQuestion = EmptyStr
       ELSE IF question # EmptyStr
       THEN j.status = "waiting" /\ j.output = transcript
            /\ j.pendingQuestion = question
       ELSE j.status = "success" /\ j.output = transcript
            /\ j.pendingQuestion = EmptyStr

C5_Completion ==
    [][\A p \in Procs : Completes(p) => \E result \in Results : C5_Outcome(p, result)]_vars

C5_Witness ==
    \E id \in JobIds :
        /\ jobs[id].status = "waiting"
        /\ jobs[id].output = TBig
        /\ jobs[id].pendingQuestion = Q1
        /\ events = << Emit, Notify(id, "waiting") >>

\* C6: startup recovery - the reset of Start leaves no job running; a job that
\* was running is failed with "interrupted: app was restarted"; every other
\* job, a waiting one with its question included, is unchanged; a change
\* event is emitted iff a job was reset.
C6_StartupRecovery ==
    [][(~started /\ started')
         => /\ \A id \in JobIds :
                 /\ jobs'[id].status # "running"
                 /\ jobs[id].status = "running"
                      => /\ jobs'[id].status = "failed"
                         /\ jobs'[id].output = InterruptedMsg
                 /\ jobs[id].status # "running" => jobs'[id] = jobs[id]
            /\ (events' = << Emit >>) <=> (\E id \in JobIds : jobs[id].status = "running")
            /\ events' \in {<< >>, << Emit >>}
            /\ pc'[Loop] = "tick"]_vars

C6_Witness ==
    /\ started /\ pc[Loop] = "tick" /\ crashes = 1
    /\ events = << Emit >>
    /\ jobs[1].status = "waiting" /\ jobs[1].pendingQuestion = Q1
    /\ jobs[2].status = "failed" /\ jobs[2].output = InterruptedMsg

\* C7: RunNow on a running job is rejected and launches nothing; consequently
\* RunNow calls never lead to two run records in running status for one job.
RunningRuns(id) == {i \in RunsOf(runs, id) : runs[i].status = "running"}

C7_NoDuplicateRunningRun ==
    /\ [](\A id \in JobIds : Cardinality(RunningRuns(id)) <= 1)
    /\ [][\A p \in Slots : (pc[p] = "free" /\ pc'[p] = "mark")
            => jobs[ljob'[p].id].status # "running"]_vars

\* C8: AnswerQuestion on a job that is not waiting is rejected and launches
\* nothing; for one pending question at most one AnswerQuestion call is
\* accepted (no two answer-resumptions of the same run record).
Answering(id) == {p \in Slots : pc[p] = "answer" /\ ljob[p].id = id}

C8_OneAnswerPerQuestion ==
    /\ [](\A id \in JobIds :
            \A p, q \in Answering(id) : lrun[p].id = lrun[q].id => p = q)
    /\ [][\A p \in Slots : (pc[p] = "free" /\ pc'[p] = "aupd")
            => jobs[ljob'[p].id].status = "waiting"]_vars

\* the database of InitAnswer is one the program leaves behind
C8_ParkedReachable ==
    /\ jobs = [id \in JobIds |-> IF id = 1 THEN ParkedJob ELSE CreateJob(id)]
    /\ runs = << ParkedRun >>
    /\ nextRunId = 2
    /\ ~started

\* C9 as claimed: after an answer-resumption completes, the output persisted
\* on the job and on the run starts with the output the run had while
\* waiting.
C9_AlwaysPrepended ==
    [][\A p \in Slots :
         (pc[p] = "answer" /\ Completes(p) /\ lrun[p].id # 0)
           => /\ HasPrefix(jobs'[ljob[p].id].output, lrun[p].output)
              /\ HasPrefix(RunRow(runs', lrun[p].id).output, lrun[p].output)]_vars

\* C9 as amended: when the answer invocation returns no error (and
\* AnswerQuestion found a latest run), the job's output becomes the run's
\* prior output, a blank line and the new transcript, and the run stores that
\* text cut to the output cap; when the invocation fails, both hold the error
\* text alone.
C9_PrependedOnSuccess ==
    [][\A p \in Slots :
         (pc[p] = "answer" /\ Completes(p) /\ lrun[p].id # 0)
           => \E result \in Results :
                LET out == IF result.err THEN result.errText
                           ELSE Concat(lrun[p].output, Concat(Sep, result.Transcript))
                IN /\ jobs'[ljob[p].id].output = out
                   /\ jobs'[ljob[p].id].status = "failed" <=> result.err
                   /\ RunRow(runs', lrun[p].id).output = truncateOutput(out)
                   /\ ~result.err => HasPrefix(out, lrun[p].output)]_vars

C9_Witness ==
    \E i \in 1..Len(runs) :
        /\ jobs[runs[i].jobId].status = "success"
        /\ jobs[runs[i].jobId].output = Concat(TBig, Concat(Sep, TShort))
        /\ runs[i].status = "success"
        /\ runs[i].output = truncateOutput(jobs[runs[i].jobId].output)
        /\ runs[i].output # jobs[runs[i].jobId].output

\* C10: shutdown is a hard join - when Stop() returns the tick loop has
\* exited and every goroutine launched by RunNow or AnswerQuestion has
\* finished; Stop called mid-tick returns only after the in-flight execution
\* has completed its completion handling.
C10_HardJoin ==
    [][(stopPc = "waiting" /\ stopPc' = "returned")
         => /\ pc[Loop] = "exited"
            /\ \A p \in Slots : pc[p] \notin {"mark", "exec", "answer"}]_vars

C10_Witness ==
    /\ stopPc = "returned"
    /\ stopMidRun
    /\ pc[Loop] = "exited"
    /\ \A p \in Slots : pc[p] = "free"
    /\ \A i \in 1..Len(runs) : runs[i].status # "running"

\* C11: once the context is cancelled the tick path starts no further job
\* execution - in a state with the context cancelled the tick calls executeJob
\* for no job, neither for the remaining due jobs of the tick in progress nor
\* in a tick that begins afterwards; such a tick ends without a job picked.
C11_NoStartAfterCancel ==
    [][(cancelled /\ pc[Loop] = "scan" /\ crashes' = crashes)
         => /\ pc'[Loop] \in {"scan", "wait"}
            /\ ljob'[Loop] = NoJob
            /\ pc'[Loop] = "wait" => tjobs' = << >>]_vars

\* the loop has exited on cancellation and left a due job unexecuted
C11_Witness ==
    /\ cancelled /\ pc[Loop] = "exited"
    /\ jobs[1].lastRun # NoTime /\ jobs[1].status = "success"
    /\ jobs[2] = CreateJob(2) /\ isDue(jobs[2], now)
    /\ execs = 1 /\ Len(runs) = 1 /\ \A p \in Slots : pc[p] = "free"

\* C12: Stop terminates - if every executor invocation returns once its
\* context is cancelled, a Stop() that has been called eventually returns,
\* whether the scheduler is idle between ticks or in the middle of an
\* execution.
C12_StopTerminates ==
    (stopPc = "waiting") ~> (stopPc = "returned")

\* Stop() was called in the middle of executions, the cancelled invocations
\* returned an error, and Stop() has returned
C12_Witness ==
    /\ stopPc = "returned" /\ stopMidRun /\ wg = 0
    /\ \A id \in JobIds : jobs[id].status = "failed" /\ jobs[id].output = ErrText

\* C13: the tick path is strictly sequential - a tick begins only when no tick
\* is in progress and the tick path has no execution in flight; the tick
\* picks its next due job only when the job it picked before has finished
\* its completion handling; the tick path holds a job exactly while it
\* executes it, inside a tick.
TickBegins == pc'[Loop] = "scan" /\ ti' = 1 /\ ~(pc[Loop] = "scan" /\ ti = 1)

TickPicks == pc'[Loop] = "mark" /\ pc[Loop] # "mark"

C13_TickSequential ==
    /\ [](/\ (ljob[Loop] # NoJob) <=> (pc[Loop] \in {"mark", "exec"})
          /\ (lrun[Loop] # NoRun) => (pc[Loop] = "exec")
          /\ (tjobs # << >>) <=> (pc[Loop] \in {"scan", "mark", "exec"})
          /\ (pc[Loop] \in {"mark", "exec"}) => (ljob[Loop].id = tjobs[ti].id))
    /\ [][/\ TickBegins => (/\ pc[Loop] \in {"tick", "wait"}
                             /\ tjobs = << >>
                             /\ ljob[Loop] = NoJob /\ lrun[Loop] = NoRun)
          /\ TickPicks => (/\ pc[Loop] = "scan"
                           /\ ljob[Loop] = NoJob /\ lrun[Loop] = NoRun
                           /\ ti' >= ti)]_vars

\* the tick executes its second job after the first has completed
C13_Witness ==
    /\ pc[Loop] = "exec" /\ ti = 2 /\ ljob[Loop].id = 2
    /\ jobs[1].status = "waiting"
    /\ jobs[1].lastRun = FormatRFC3339(lnow[Loop])
    /\ runs[1].jobId = 1 /\ runs[1].status = "waiting"
    /\ \A p \in Slots : pc[p] = "free"

\* C14: isDue(job, now) is true exactly when the job is active, its status is
\* neither running nor waiting, its interval is non-zero (known unit), a
\* reference time exists and parses (last-run if set, otherwise start date)
\* and reference + interval <= now, the boundary included; the tick picks a
\* job exactly in that case.
DueReference(job) == IF job.lastRun # NoTime THEN job.lastRun ELSE job.startDate

DueExactly(job, t) ==
    /\ job.active
    /\ job.status \notin {"running", "waiting"}
    /\ job.intervalUnit \in {"minutes", "hours", "days", "weeks"}
    /\ job.intervalValue # 0
    /\ DueReference(job).kind \in {"rfc3339", "local"}
    /\ DueReference(job).sec * TicksPerSecond
         + intervalDuration(job.intervalValue, job.intervalUnit) <= t

C14_IsDueExactly ==
    /\ [](\A k \in 1..Len(tjobs) :
            isDue(tjobs[k], lnow[Loop]) <=> DueExactly(tjobs[k], lnow[Loop]))
    /\ [][(pc[Loop] = "scan" /\ ti = 1 /\ pc'[Loop] # "scan")
            => ((pc'[Loop] = "mark") <=> DueExactly(tjobs[1], lnow[Loop]))]_vars

\* a job picked at the boundary: reference + interval = now
C14_Witness ==
    /\ pc[Loop] = "mark" /\ ljob[Loop].status = "failed"
    /\ ljob[Loop].lastRun = FormatRFC3339(Minute)
    /\ ljob[Loop].startDate = FormatLocal(3 * Minute)
    /\ parseTime(ljob[Loop].lastRun).t
         + intervalDuration(ljob[Loop].intervalValue, ljob[Loop].intervalUnit)
       = lnow[Loop]

\* the jobs C15 is about: never run, otherwise eligible, start date parses
NeverRun(job) ==
    /\ job.lastRun = NoTime
    /\ job.active /\ job.status \notin {"running", "waiting"}
    /\ validateJob(job)
    /\ parseTime(job.startDate).ok

\* C15 as claimed: a job with no last-run and a future start timestamp is not
\* due; a job with a past start timestamp and zero prior runs is due.
C15_PastStartIsDue ==
    \A k \in 1..Len(tjobs) :
        LET job == tjobs[k]
            start == parseTime(job.startDate).t
        IN NeverRun(job)
             => /\ (start > lnow[Loop]) => ~isDue(job, lnow[Loop])
                /\ (start < lnow[Loop]) => isDue(job, lnow[Loop])

\* C15 as amended: with no last-run, a job whose start timestamp is in the
\* future, or less than one interval in the past, is not due; it is due once
\* start + interval <= now.
C15_StartPlusInterval ==
    \A k \in 1..Len(tjobs) :
        LET job == tjobs[k]
            start == parseTime(job.startDate).t
            interval == intervalDuration(job.intervalValue, job.intervalUnit)
        IN NeverRun(job)
             => /\ (start > lnow[Loop]) => ~isDue(job, lnow[Loop])
                /\ (start + interval > lnow[Loop]) => ~isDue(job, lnow[Loop])
                /\ (start + interval <= lnow[Loop]) => isDue(job, lnow[Loop])

\* a never-run job picked by the tick exactly one interval after its start
C15_Witness ==
    /\ pc[Loop] = "mark" /\ ljob[Loop].lastRun = NoTime
    /\ ljob[Loop].status = "pending"
    /\ ljob[Loop].startDate = FormatLocal(Minute)
    /\ ljob[Loop].intervalValue = 1 /\ ljob[Loop].intervalUnit = "minutes"
    /\ lnow[Loop] = 2 * Minute

\* C16: every Execute-path run (tick or RunNow) that completes persists
\* last-run = the start instant of the run (the now handed to executeJob, the
\* started-at of its run record) and next-run = that instant + interval,
\* whatever the outcome; so next-run = last-run + interval.
C16_TimingRefreshed ==
    [][\A p \in Procs :
         (pc[p] = "exec" /\ Completes(p))
           => LET j == jobs'[ljob[p].id]
                  interval == intervalDuration(ljob[p].intervalValue,
                                               ljob[p].intervalUnit)
              IN /\ j.status \in {"success", "failed", "waiting"}
                 /\ j.lastRun = FormatRFC3339(lnow[p])
                 /\ j.lastRun = lrun[p].startedAt
                 /\ j.nextRun = FormatRFC3339(lnow[p] + interval)
                 /\ parseTime(j.nextRun).t = parseTime(j.lastRun).t + interval]_vars

\* a run started at 2 * Minute has ended waiting, another one has failed
C16_Witness ==
    /\ jobs[1].status = "waiting"
    /\ jobs[1].lastRun = FormatRFC3339(2 * Minute)
    /\ jobs[1].nextRun = FormatRFC3339(3 * Minute)
    /\ jobs[2].status = "failed"
    /\ jobs[2].lastRun = FormatRFC3339(Minute)
    /\ jobs[2].nextRun = FormatRFC3339(2 * Minute)

\* C17: every job status transition the engine persists (to running, success,
\* failed or waiting; by a tick Execute, RunNow, AnswerQuestion or the startup
\* recovery) comes with a notify(jobName, newStatus) call.
C17_NotifyOnEveryTransition ==
    [][\A id \in JobIds :
         jobs'[id].status # jobs[id].status
           => \E k \in 1..Len(events') :
                events'[k] = Notify(jobs'[id].name, jobs'[id].status)]_vars

\* C18: after every job-state mutation the engine persists (mark running,
\* completion, answer marking, startup reset) the change event is emitted,
\* and it is emitted before the engine persists the next mutation of that
\* job.
EmitOwed(id) == {p \in Procs : pc[p] \in {"memit", "femit"} /\ ljob[p].id = id}

C18_EmitAfterEveryMutation ==
    [][\A id \in JobIds :
         /\ jobs'[id] # jobs[id]
              => /\ EmitOwed(id) = {}
                 /\ Emit \in {events'[k] : k \in 1..Len(events')}
                      \/ EmitOwed(id)' # {}
         /\ \A p \in EmitOwed(id) :
              p \notin EmitOwed(id)' => Emit \in {events'[k] : k \in 1..Len(events')}]_vars

\* C19: the tick path runs a due job exactly once per cycle - a single tick
\* never executes the same job twice, and once a tick with tick time t has
\* executed a job (its run record is started at t), no later tick executes
\* that job again before t + interval.
C19_OncePerCycle ==
    [][TickPicks
         => LET job == ljob'[Loop]
                interval == intervalDuration(job.intervalValue, job.intervalUnit)
            IN /\ \A k \in 1..(ti' - 1) : tjobs[k].id # job.id
               /\ \A i \in RunsOf(runs, job.id) :
                    parseTime(runs[i].startedAt).t + interval <= lnow[Loop]]_vars

\* C20: ClaudeExecute first invokes the agent resuming the conversation keyed
\* by the job id; it makes a second, fresh-session invocation with the same
\* prompt if and only if the resume attempt failed with an error containing
\* "No conversation found"; any other outcome of the resume is returned as it
\* is, and the outcome of the fresh invocation is returned as it is: at most
\* two invocations.
C20_ResumeThenFresh ==
    (cli.kind = "execute" /\ cli.pc = "done" /\ cli.built)
      => /\ Len(cli.invocations) \in {1, 2}
         /\ Len(cli.outcomes) = Len(cli.invocations)
         /\ cli.invocations[1] = Invocation(TRUE, cli.id, cli.turn)
         /\ (Len(cli.invocations) = 2)
              <=> (/\ cli.outcomes[1].err
                   /\ Contains(cli.outcomes[1].errText, NoConversationFound))
         /\ (Len(cli.invocations) = 2)
              => (/\ ~cli.invocations[2].resume
                  /\ cli.invocations[2].turn = cli.turn)
         /\ cli.result = cli.outcomes[Len(cli.outcomes)]

\* the resume found no conversation and the fresh session succeeded
C20_Witness ==
    /\ cli.kind = "execute" /\ cli.pc = "done"
    /\ cli.invocations = << Invocation(TRUE, 2, "prompt B"), Invocation(FALSE, 0, "prompt B") >>
    /\ cli.outcomes = << Result(TRUE, Concat(Lit("claude: ", 8), StderrNoSession), EmptyStr, << >>),
                       ResOk >>
    /\ cli.result = ResOk

\* C21 (as stated): ClaudeAnswer always makes exactly one invocation
C21_AlwaysOneInvocation ==
    (cli.kind = "answer" /\ cli.pc = "done") => Len(cli.invocations) = 1

\* C21: ClaudeAnswer makes no invocation when building the MCP configuration
\* fails, and otherwise exactly one: a resume of the job's conversation with
\* the answer as the turn; it never starts a fresh session, and whatever the
\* resume returned, the no-conversation error included, is returned as it is
\* (finishExecution then records an error as a failed job with that text).
C21_OneResumeNoFallback ==
    /\ (cli.kind = "answer") => (cli.pc # "fresh")
    /\ (cli.kind = "answer" /\ cli.pc = "done")
         => /\ \A i \in 1..Len(cli.invocations) : cli.invocations[i].resume
            /\ IF cli.built
               THEN /\ cli.invocations = << Invocation(TRUE, cli.id, cli.turn) >>
                    /\ Len(cli.outcomes) = 1
                    /\ cli.result = cli.outcomes[1]
               ELSE /\ cli.invocations = << >>
                    /\ cli.result.err
            /\ cli.result.err
                 => \A id \in JobIds :
                      LET j == finishExecution(CreateJob(id), cli.result)
                      IN j.status = "failed" /\ j.output = cli.result.errText

\* the resume of an answer found no conversation, and that error was returned
C21_Witness ==
    /\ cli.kind = "answer" /\ cli.pc = "done" /\ cli.built
    /\ Len(cli.invocations) = 1
    /\ cli.result.err
    /\ Contains(cli.result.errText, NoConversationFound)

\* C22: with at least one MCP server the temporary configuration file exists
\* during every invocation of a call of ClaudeExecute or ClaudeAnswer, the
\* fresh-session fallback included, and no longer exists once the call has
\* returned, whether it succeeded, failed, or failed while building the file;
\* with no servers no file is ever created.
C22_ConfigFileScoped ==
    /\ (cli.pc \in {"resume", "fresh"} /\ cli.servers > 0) => cli.file
    /\ (cli.pc \in {"done", "idle"}) => ~cli.file
    /\ (cli.servers = 0) => (~cli.created /\ ~cli.file)

\* a call with servers went through the fallback and returned; the file it
\* had created is gone
C22_Witness ==
    /\ cli.pc = "done" /\ cli.kind = "execute" /\ cli.servers > 0
    /\ cli.created /\ ~cli.file
    /\ Len(cli.invocations) = 2

\* line i of the stream is an event that parsed
Parsed(lines, i) == lines[i].json /\ TrimSpace(lines[i].raw) # EmptyStr

\* the result events of the stream flagged as errors
FlaggedResults(lines) ==
    {i \in 1..Len(lines) : Parsed(lines, i) /\ lines[i].type = "result" /\ lines[i].isError}

\* C23: when the event stream of a run contains a result event flagged as an
\* error, the run ends as failed and the output of the job and of the run is
\* the message of such an event.
C23_FlaggedResultFails ==
    (cli.pc = "finished" /\ FlaggedResults(cli.lines) # {})
      => /\ jobs[1].status = "failed"
         /\ RunRow(runs, 1).status = "failed"
         /\ \E i \in FlaggedResults(cli.lines) :
              /\ jobs[1].output = cli.lines[i].result
              /\ RunRow(runs, 1).output = cli.lines[i].result

\* what the code does: the flagged result decides only when the CLI exited
\* with an error, and then the first flagged result with a message is the
\* output
C23_FlaggedResultOnFailedExit ==
    (/\ cli.pc = "finished" /\ cli.failed
     /\ \E i \in FlaggedResults(cli.lines) : cli.lines[i].result # EmptyStr)
      => /\ jobs[1].status = "failed"
         /\ RunRow(runs, 1).status = "failed"
         /\ LET first == Min({i \in FlaggedResults(cli.lines) :
                                cli.lines[i].result # EmptyStr})
            IN /\ jobs[1].output = cli.lines[first].result
               /\ RunRow(runs, 1).output = cli.lines[first].result

IsResultEvent(l) == l.json /\ TrimSpace(l.raw) # EmptyStr /\ l.type = "result"
NotResultEvent(l) == ~IsResultEvent(l)

\* the text of the last result event of the stream, empty when there is none
LastResultText(lines) ==
    LET at == {i \in 1..Len(lines) : IsResultEvent(lines[i])}
    IN IF at = {} THEN EmptyStr
       ELSE lines[CHOOSE i \in at : \A k \in at : k <= i].result

\* the transcript built from the events other than result events
AssistantTranscript(lines) == buildTranscript(SelectSeq(lines, NotResultEvent))

\* the transcript the claim describes: the assistant transcript, followed by
\* a Summary section with the trimmed text of the last result event exactly
\* when that text is not empty and does not occur in the assistant transcript
TranscriptReference(lines) ==
    LET base == AssistantTranscript(lines)
        text == TrimSpace(LastResultText(lines))
        summary == Concat(SummaryOpen, Concat(text, Lit("</div>", 6)))
    IN IF text # EmptyStr /\ ~Contains(base, text)
       THEN IF base = EmptyStr THEN summary
            ELSE Concat(base, Concat(Newlines(2), summary))
       ELSE base

\* C24: the transcript of a run is the transcript of the assistant events,
\* with a trailing Summary section for the text of the last result event if
\* and only if that text, trimmed, is not empty and is not a substring of the
\* assistant transcript; earlier result events and the flag of a result event
\* change nothing.
C24_SummaryIffNotContained ==
    (cli.pc \in {"ran", "finished"} /\ ~cli.failed /\ TranscriptReference(cli.lines) # EmptyStr)
      => /\ cli.outcome.Transcript = TranscriptReference(cli.lines)
         /\ Contains(cli.outcome.Transcript, SummaryOpen)
              <=> (/\ TrimSpace(LastResultText(cli.lines)) # EmptyStr
                   /\ ~Contains(AssistantTranscript(cli.lines),
                                 TrimSpace(LastResultText(cli.lines))))

\* an assistant text, a result event that echoes it and a last result event
\* with another text: the transcript ends with a Summary section; and the
\* same text and echo alone give none
C24_Witness ==
    /\ cli.pc = "ran" /\ ~cli.failed
    /\ Len(cli.lines) = 3
    /\ cli.lines[1].type = "assistant" /\ AssistantTranscript(cli.lines) # EmptyStr
    /\ IsResultEvent(cli.lines[2]) /\ IsResultEvent(cli.lines[3])
    /\ Contains(AssistantTranscript(cli.lines), TrimSpace(cli.lines[2].result))
    /\ cli.lines[2].result # EmptyStr
    /\ Contains(cli.outcome.Transcript, SummaryOpen)
    /\ ~Contains(buildTranscript(SubSeq(cli.lines, 1, 2)), SummaryOpen)

\* the content blocks of the assistant events of the stream, in order
RECURSIVE AllBlocks(_)
AllBlocks(lines) ==
    IF lines = << >> THEN << >>
    ELSE (IF IsResultEvent(lines[1]) \/ ~lines[1].json
             \/ TrimSpace(lines[1].raw) = EmptyStr
             \/ lines[1].type # "assistant" \/ ~lines[1].hasMessage
          THEN << >> ELSE lines[1].content) \o AllBlocks(Tail(lines))

\* the question invocations among them: AskUserQuestion tool invocations
\* whose input parses with a non-empty question list
QuestionCalls(blocks) ==
    {i \in 1..Len(blocks) :
        /\ blocks[i].type = "tool_use" /\ blocks[i].name = "AskUserQuestion"
        /\ blocks[i].input.raw # EmptyStr
        /\ blocks[i].input.parses /\ blocks[i].input.questions > 0}

OtherToolCalls(blocks) ==
    {i \in 1..Len(blocks) : blocks[i].type = "tool_use"} \ QuestionCalls(blocks)

\* the number of occurrences of a markup token in a text
Occurrences(s, token) == Cardinality({i \in 1..Len(s) : s[i].c = token[1].c})

\* C25: in the transcript of every stream the generic tool blocks are as many
\* as the tool invocations that are not question invocations, so a question
\* invocation is never rendered as one, and there is a question card if and
\* only if there is a question invocation; DetectQuestion returns the raw
\* input of the last question invocation, and the empty string iff there is
\* none; so DetectQuestion is non-empty exactly when a card was rendered.
C25_QuestionCardAndDetect ==
    (cli.pc \in {"ran", "finished"})
      => LET blocks == AllBlocks(cli.lines)
             calls == QuestionCalls(blocks)
             transcript == buildTranscript(cli.lines)
         IN /\ Occurrences(transcript, ToolOpen) = Cardinality(OtherToolCalls(blocks))
            /\ Occurrences(transcript, CardOpen) >= Cardinality(calls)
            /\ (Occurrences(transcript, CardOpen) > 0) <=> (calls # {})
            /\ DetectQuestion(cli.lines)
                 = IF calls = {} THEN EmptyStr
                   ELSE blocks[CHOOSE i \in calls : \A k \in calls : k <= i].input.raw
            /\ (DetectQuestion(cli.lines) # EmptyStr)
                 <=> (Occurrences(transcript, CardOpen) > 0)
            /\ (~cli.failed /\ calls # {})
                 => /\ cli.outcome.Transcript = transcript
                    /\ DetectQuestion(cli.outcome.RawLines) = DetectQuestion(cli.lines)

\* two question invocations with different inputs and a generic tool block:
\* the job is parked with the raw input of the later invocation
C25_Witness ==
    /\ cli.pc = "finished" /\ ~cli.failed
    /\ Cardinality(QuestionCalls(AllBlocks(cli.lines))) = 2
    /\ OtherToolCalls(AllBlocks(cli.lines)) # {}
    /\ AllBlocks(cli.lines)[1].input.raw # DetectQuestion(cli.lines)
    /\ jobs[1].status = "waiting"
    /\ jobs[1].pendingQuestion = DetectQuestion(cli.lines)
    /\ Occurrences(jobs[1].output, CardOpen) = 3

\* s[k:] of Go, for 0 <= k <= len(s)
RECURSIVE Drop(_, _)
Drop(s, k) ==
    IF k <= 0 \/ s = << >> THEN s
    ELSE IF s[1].n <= k THEN Drop(Tail(s), k - s[1].n)
    ELSE << [c |-> s[1].c, n |-> s[1].n - k] >> \o Tail(s)

\* stored is what the claim says is kept of output
StoredAsCapped(stored, output) ==
    /\ StrLen(stored) <= maxOutputBytes
    /\ IF StrLen(output) <= maxOutputBytes
       THEN stored = output
       ELSE /\ StrLen(stored) = maxOutputBytes
            /\ Drop(stored, maxOutputBytes - 13) = truncatedMarker
            /\ Take(stored, maxOutputBytes - 13) = Take(output, maxOutputBytes - 13)
    /\ truncateOutput(stored) = stored

\* C26: every stored run output is at most maxOutputBytes long; an output
\* within the cap is stored unchanged by UpdateRun and by CreateRun, a longer
\* one is stored as its first maxOutputBytes - 13 bytes followed by the
\* 13-byte marker "\n\n[truncated]", exactly maxOutputBytes bytes in all; and
\* truncating a stored output again changes nothing.
C26_OutputCapped ==
    /\ StrLen(truncatedMarker) = 13
    /\ \A i \in 1..Len(runs) : StrLen(runs[i].output) <= maxOutputBytes
    /\ (cli.pc = "finished")
         => /\ StoredAsCapped(RunRow(runs, 1).output, jobs[1].output)
            /\ StoredAsCapped(
                  CreateRun(<< >>, [NoRun EXCEPT !.output = jobs[1].output], 1)[1].output,
                  jobs[1].output)

\* an output one byte over the cap was stored, cut and marked
C26_Witness ==
    /\ cli.pc = "finished"
    /\ StrLen(jobs[1].output) = maxOutputBytes + 1
    /\ StrLen(RunRow(runs, 1).output) = maxOutputBytes
    /\ Drop(RunRow(runs, 1).output, maxOutputBytes - 13) = truncatedMarker

\* the rows of job id in table rt that are no longer in table rt2
PrunedRows(rt, rt2, id) ==
    {i \in RunsOf(rt, id) : RunIdx(rt2, rt[i].id) = {}}

\* C27: after every completion handling of a run of a job, the job has at
\* most maxRunsPerJob run records, and every run record of the job that is
\* retained started no earlier than any that was deleted in that step.
C27_HistoryCapped ==
    [][\A p \in Procs :
         (Completes(p) /\ lrun[p].id # 0)
           => /\ Cardinality(RunsOf(runs', ljob[p].id)) <= maxRunsPerJob
              /\ \A i \in PrunedRows(runs, runs', ljob[p].id) :
                   \A k \in RunsOf(runs', ljob[p].id) :
                     runs[i].startedAt.sec <= runs'[k].startedAt.sec]_vars

\* job 1 has maxRunsPerJob run records and its oldest run is gone
C27_Witness ==
    /\ Cardinality(RunsOf(runs, 1)) = maxRunsPerJob
    /\ RunIdx(runs, 1) = {}
    /\ RunIdx(runs, maxRunsPerJob + 1) # {}
    /\ RunRow(runs, maxRunsPerJob + 1).status \in {"success", "failed", "waiting"}

\* C28: a run record whose status is success or failed is not modified by any
\* step: it is left as it is, or it is deleted.
C28_TerminalRunFrozen ==
    [][\A i \in 1..Len(runs) :
         (runs[i].status \in {"success", "failed"})
           => (RunIdx(runs', runs[i].id) = {} \/ RunRow(runs', runs[i].id) = runs[i])]_vars

\* p passes from the status check of AnswerQuestion to the answer invocation
\* in this step: the call is accepted and returns nil
AnswerAccepts(p) == pc[p] = "aupd" /\ pc'[p] = "answer"

\* the first part of C29: in the step in which AnswerQuestion is accepted, the
\* job is persisted as running with no pending question, a most recent run
\* record of the job (if it has one) is persisted as running with no pending
\* question, two change events are emitted, and only then is the answer
\* invocation in flight.
C29_PersistedBeforeInvocation ==
    [][\A p \in Slots :
         AnswerAccepts(p)
           => /\ jobs'[ljob[p].id].status = "running"
              /\ jobs'[ljob[p].id].pendingQuestion = EmptyStr
              /\ events' = << Emit, Emit >>
              /\ (RunsOf(runs, ljob[p].id) # {})
                   => /\ lrun'[p].id # 0
                      /\ lrun'[p].id \in {runs[i].id : i \in LatestRuns(runs, ljob[p].id)}
                      /\ RunRow(runs', lrun'[p].id).status = "running"
                      /\ RunRow(runs', lrun'[p].id).pendingQuestion = EmptyStr]_vars

\* C29: after an accepted AnswerQuestion has returned and while its answer
\* invocation is in flight, whoever reads the job (RunNow, the tick) sees it
\* running.
C29_ReadersSeeRunning ==
    \A p \in Slots :
       (pc[p] = "answer") => (GetJob(jobs, ljob[p].id).status = "running")

\* C30: when an answer resumption completes, also when it parks the job in
\* waiting again, the job's last-run timestamp is the time of the resumption
\* and its next-run timestamp is one interval later, as executeJob sets them
\* for a normal run.
C30_AnswerRefreshesTiming ==
    [][\A p \in Slots :
         (Completes(p) /\ pc[p] = "answer" /\ UpdateJobOk(jobs, ljob[p]))
           => /\ jobs'[ljob[p].id].lastRun = FormatRFC3339(now)
              /\ jobs'[ljob[p].id].nextRun
                   = FormatRFC3339(now + intervalDuration(ljob[p].intervalValue,
                                                          ljob[p].intervalUnit))]_vars

\* what the code does: an answer resumption leaves both timestamps as the
\* execution that asked the question had set them
C30_AnswerKeepsTiming ==
    [][\A p \in Slots :
         (Completes(p) /\ pc[p] = "answer" /\ UpdateJobOk(jobs, ljob[p]))
           => /\ jobs'[ljob[p].id].lastRun = ljob[p].lastRun
              /\ jobs'[ljob[p].id].nextRun = ljob[p].nextRun]_vars

\* the standard output of the process is empty or a single newline: the
\* scanner delivers no line, or one empty line
NoOutputAtAll(lines) == lines = << >> \/ (Len(lines) = 1 /\ lines[1].raw = EmptyStr)

\* C31: after a zero exit, a non-empty transcript is returned with the raw
\* lines; with an empty transcript the raw lines joined by newlines are
\* returned as the transcript, with the raw lines, unless there is no output
\* at all, in which case the invocation fails with "empty response from
\* claude" and returns no content.
C31_ZeroExitResult ==
    (cli.pc \in {"ran", "finished"} /\ ~cli.failed)
      => IF buildTranscript(cli.lines) # EmptyStr
         THEN cli.outcome = Result(FALSE, EmptyStr, buildTranscript(cli.lines), cli.lines)
         ELSE IF ~NoOutputAtAll(cli.lines)
         THEN /\ cli.outcome = Result(FALSE, EmptyStr, JoinLines(cli.lines), cli.lines)
              /\ cli.outcome.Transcript # EmptyStr
         ELSE cli.outcome
                = Result(TRUE, Lit("empty response from claude", 26), EmptyStr, << >>)

\* three lines, none of which contributes to the transcript: the raw lines
\* are the output of the job, which ends in success
C31_Witness ==
    /\ cli.pc = "finished" /\ ~cli.failed
    /\ Len(cli.lines) = 3
    /\ buildTranscript(cli.lines) = EmptyStr
    /\ cli.outcome.Transcript = JoinLines(cli.lines)
    /\ jobs[1].status = "success"
    /\ jobs[1].output = JoinLines(cli.lines)

\* C32: after a non-zero exit, the error is the message extractError finds,
\* alone, when there is one; otherwise "claude: " followed by the trimmed
\* standard error and the trimmed standard output, those of the two that are
\* not empty, joined by a newline; otherwise "claude: " followed by the
\* error of the process; no transcript and no raw lines are returned.
C32_NonZeroExitError ==
    (cli.pc \in {"ran", "finished"} /\ cli.failed)
      => LET msg == extractError(cli.lines)
             err == TrimSpace(cli.stderr)
             out == TrimSpace(JoinLines(cli.lines))
             own == Lit("claude: ", 8)
         IN /\ cli.outcome.err
            /\ cli.outcome.Transcript = EmptyStr
            /\ cli.outcome.RawLines = << >>
            /\ cli.outcome.errText
                 = IF msg # EmptyStr THEN msg
                   ELSE IF err # EmptyStr /\ out # EmptyStr
                   THEN Concat(own, Concat(err, Concat(Newlines(1), out)))
                   ELSE IF err # EmptyStr THEN Concat(own, err)
                   ELSE IF out # EmptyStr THEN Concat(own, out)
                   ELSE Concat(own, Lit("exit status 1", 13))

\* the events carry a message and the process wrote to standard error: the
\* message alone is the output of the failed job
C32_Witness ==
    /\ cli.pc = "finished" /\ cli.failed
    /\ TrimSpace(cli.stderr) # EmptyStr
    /\ extractError(cli.lines) # EmptyStr
    /\ jobs[1].status = "failed"
    /\ jobs[1].output = extractError(cli.lines)

\* the assistant events of the stream that contain a text block, with any
\* text or with a text that is not empty
AssistantTexts(lines, nonEmpty) ==
    {i \in 1..Len(lines) :
        /\ Parsed(lines, i) /\ lines[i].type = "assistant" /\ lines[i].hasMessage
        /\ \E b \in 1..Len(lines[i].content) :
             /\ lines[i].content[b].type = "text"
             /\ nonEmpty => (lines[i].content[b].text # EmptyStr)}

\* the text of the first text block of a message (with any text, or with a
\* text that is not empty)
FirstTextBlock(blocks, nonEmpty) ==
    LET at == {b \in 1..Len(blocks) :
                 /\ blocks[b].type = "text"
                 /\ nonEmpty => (blocks[b].text # EmptyStr)}
    IN blocks[Min(at)].text

\* what extractError returns according to the claim, the flagged result
\* events and the text blocks being those with any message (nonEmpty FALSE)
\* or those with a message that is not empty (nonEmpty TRUE)
ExtractErrorReference(lines, nonEmpty) ==
    LET flagged == {i \in FlaggedResults(lines) :
                      nonEmpty => (lines[i].result # EmptyStr)}
        texts == AssistantTexts(lines, nonEmpty)
    IN IF flagged # {} THEN lines[Min(flagged)].result
       ELSE IF texts # {} THEN FirstTextBlock(lines[Min(texts)].content, nonEmpty)
       ELSE EmptyStr

\* C34 (as stated): extractError returns the message of the first result
\* event flagged as an error; if there is none, the first text block of the
\* first assistant event that contains one; else the empty string.
C34_FirstFlaggedResult ==
    (cli.pc \in {"ran", "finished"})
      => extractError(cli.lines) = ExtractErrorReference(cli.lines, FALSE)

\* C34: extractError returns the message of the first result event flagged
\* as an error that has a non-empty message, wherever it occurs in the stream;
\* if there is none, the first non-empty text of a text block of the first
\* assistant event that contains one; else the empty string - and after a
\* non-zero exit that message, when not empty, is the error of the invocation.
C34_FirstFlaggedResultWithMessage ==
    (cli.pc \in {"ran", "finished"})
      => /\ extractError(cli.lines) = ExtractErrorReference(cli.lines, TRUE)
         /\ (cli.failed /\ ExtractErrorReference(cli.lines, TRUE) # EmptyStr)
              => cli.outcome.errText = ExtractErrorReference(cli.lines, TRUE)

\* assistant text precedes a flagged result event with a message: the
\* message of the result event is the output of the failed job
C34_Witness ==
    /\ cli.pc = "finished" /\ cli.failed
    /\ AssistantTexts(cli.lines, TRUE) # {}
    /\ FlaggedResults(cli.lines) # {}
    /\ Min(AssistantTexts(cli.lines, TRUE)) < Min(FlaggedResults(cli.lines))
    /\ cli.lines[Min(FlaggedResults(cli.lines))].result # EmptyStr
    /\ jobs[1].output = cli.lines[Min(FlaggedResults(cli.lines))].result


\* a call of the executor whose server definitions cannot be turned into the
\* configuration document as given
ConfigurationError == cli.pc # "idle" /\ cli.servers > 0 /\ cli.fault # "none"

\* C33: a configuration error (a malformed MCP server definition, or a failure
\* to build the configuration document) is returned as an error before any
\* invocation of the agent, and the job is not marked running for that run
C33_ConfigErrorBeforeRunning ==
    ConfigurationError =>
        /\ cli.pc = "done" /\ cli.result.err
        /\ cli.invocations = << >>
        /\ GetJob(jobs, cli.id).status # "running"
        /\ \A i \in 1..Len(runs) :
             runs[i].jobId = cli.id => runs[i].status # "running"

\* what the code does hold: a failure to build the document is returned
\* without any invocation
C33_BuildFailureBeforeInvocation ==
    (cli.pc # "idle" /\ cli.servers > 0
        /\ cli.fault \in {"marshal", "create", "write"})
    => (cli.pc = "done" /\ cli.result.err /\ cli.invocations = << >>)

\* a malformed definition went through to an invocation of the agent
C33_MalformedInvoked ==
    cli.fault = "malformed" /\ cli.servers > 0 /\ cli.invocations # << >>

\* a build failure came back while the job was already stored as running
C33_BuildFailureWhileRunning ==
    /\ cli.pc = "done" /\ ~cli.built /\ cli.result.err
    /\ GetJob(jobs, cli.id).status = "running"

\* no Execute and no answer resumption is in flight for job id
Quiescent(id) ==
    \A p \in Procs :
        pc[p] \in {"mark", "memit", "mrun", "exec", "femit", "aupd", "answer"}
        => ljob[p].id # id

\* run record r has the status and the pending question of job j, and its
\* end timestamp is set exactly when that status is success or failed
Mirrors(r, j) ==
    /\ r.status = j.status
    /\ r.pendingQuestion = j.pendingQuestion
    /\ (r.endedAt # NoTime) <=> (j.status \in {"success", "failed"})

\* C35: in every quiescent state of a job that has a run record (the state
\* right after startup recovery included), the most recent run record has the
\* status and the pending question of the job, and its end timestamp is set
\* iff that status is success or failed
C35_RunMirrorsJob ==
    \A id \in JobIds :
        (Quiescent(id) /\ RunsOf(runs, id) # {})
        => \A r \in GetLatestRun(runs, id) : Mirrors(r, jobs[id])

\* startup recovery has failed the job and left its run record running
C35_RecoveredJobRunningRun ==
    \E id \in JobIds :
        /\ started /\ crashes > 0 /\ Quiescent(id)
        /\ jobs[id].status = "failed" /\ jobs[id].output = InterruptedMsg
        /\ \E r \in GetLatestRun(runs, id) :
             r.status = "running" /\ r.endedAt = NoTime

\* the stored row of the job the tick path is executing is running, with
\* output and pending question cleared
StoredRunningCleared ==
    LET j == GetJob(jobs, ljob[Loop].id)
    IN j.status = "running" /\ j.output = EmptyStr /\ j.pendingQuestion = EmptyStr

\* the running notification of the executed job is issued in this step
NotifiesRunning == Notify(ljob[Loop].name, "running") \in {events'[i] : i \in 1..Len(events')}

\* the store write that marks the job running fails in this step
PersistFails ==
    /\ pc[Loop] = "mark"
    /\ GetJob(jobs', ljob[Loop].id).status # "running"

\* C36: in Execute the job is stored as running with output and pending
\* question cleared, and the change event and the running notification are
\* issued, before the run record is created and before the orchestrator is
\* invoked; when the store write fails Execute stops there: no run record,
\* no invocation, no event, no further change of the job
C36_ExecuteOrder ==
    /\ [](((pc[Loop] \in {"memit", "mrun", "exec"})
            \/ lrun[Loop].id # 0 \/ cli.pc # "idle") => StoredRunningCleared)
    /\ [][ /\ NotifiesRunning
              => /\ events' = << Emit, Notify(ljob[Loop].name, "running") >>
                 /\ StoredRunningCleared
                 /\ runs' = runs /\ lrun[Loop].id = 0
                 /\ cli = CliIdle /\ cli' = CliIdle
           /\ (Len(runs') > Len(runs))
              => /\ pc[Loop] = "mrun"
                 /\ cli = CliIdle /\ cli' = CliIdle
           /\ (cli.pc = "idle" /\ cli'.pc # "idle")
              => /\ lrun[Loop].id # 0
                 /\ RunRow(runs, lrun[Loop].id).status = "running"
           /\ PersistFails
              => /\ jobs' = jobs /\ runs' = runs /\ events' = << >>
                 /\ cli' = CliIdle
                 /\ pc'[Loop] = "scan" /\ ljob'[Loop] = NoJob
         ]_vars

\* the write for job 1 failed (pending, no run) and job 2 has been marked,
\* notified, given a run record and handed to the orchestrator
C36_Witness ==
    /\ pc[Loop] = "exec" /\ ljob[Loop].id = 2 /\ cli.pc = "resume"
    /\ lrun[Loop].id # 0
    /\ jobs[1].status = "pending" /\ RunsOf(runs, 1) = {}
    /\ jobs[2].status = "running"

\* the instants the clock can show
ClockRange == {Minute + k * Minute : k \in 0..MaxClockSteps}

\* job j, as created, is due at no instant the clock can show
NeverDue(j) ==
    \A t \in ClockRange :
        ~isDue([j EXCEPT !.status = "pending", !.output = EmptyStr,
                         !.lastRun = NoTime, !.nextRun = NoTime], t)

\* the engine-owned fields of j are as CreateJob left them
Untouched(j) ==
    /\ j.status = "pending" /\ j.output = EmptyStr
    /\ j.lastRun = NoTime /\ j.nextRun = NoTime

\* an executeJob step of the tick path
TickPathStep == pc[Loop] \in {"mark", "exec"} /\ pc'[Loop] # pc[Loop]

\* C37: a job for which isDue is false at every tick is never modified by the
\* tick path: whatever the number of ticks its status, output, last-run and
\* next-run stay as they were and no run record is created for it; a step of
\* the tick path changes a job or its run records only when isDue held for
\* that job at the tick that is executing it
C37_NotDueUntouched ==
    /\ [](\A id \in JobIds :
            NeverDue(jobs[id]) => (Untouched(jobs[id]) /\ RunsOf(runs, id) = {}))
    /\ [][\A id \in JobIds :
            (TickPathStep
                /\ (jobs'[id] # jobs[id]
                     \/ {r \in 1..Len(runs') : runs'[r].jobId = id}
                          # {r \in 1..Len(runs) : runs[r].jobId = id}))
            => /\ ti \in 1..Len(tjobs) /\ tjobs[ti].id = id
               /\ isDue(tjobs[ti], lnow[Loop])]_vars

\* after two ticks, one minute apart, the inactive job 1 is as it was created
\* while the due job 2 has been executed twice
C37_Witness ==
    /\ ~jobs[1].active /\ jobs[1].startDate # NoTime
    /\ jobs[1].intervalUnit = "minutes"
    /\ Untouched(jobs[1]) /\ RunsOf(runs, 1) = {}
    /\ Cardinality(RunsOf(runs, 2)) = 2
    /\ jobs[2].status \in {"success", "failed"}
    /\ pc[Loop] = "wait"

\* the fields of a job row that the user owns
UserFields(j) == << j.name, j.active, j.intervalValue, j.intervalUnit, j.startDate >>

\* C38: the completion handling of a run changes only the engine-owned fields
\* of the job: the name, schedule and active flag that are in the store when
\* the run completes (an edit the user persisted while the run was in flight
\* included) are still there afterwards
C38_CompletionKeepsUserFields ==
    [][\A p \in Procs :
         Completes(p) => UserFields(GetJob(jobs', ljob[p].id))
                         = UserFields(GetJob(jobs, ljob[p].id))]_vars

\* a run of job 1 is in flight and the stored row carries a name that the
\* execution's copy of the job does not
C38_EditInFlight ==
    /\ pc[Loop] = "exec" /\ ljob[Loop].id = 1
    /\ jobs[1].status = "running"
    /\ jobs[1].name # ljob[Loop].name

\* C39: every job that enters running eventually leaves running (to success,
\* failed or waiting) when every orchestrator invocation returns and the
\* store writes succeed; when the process dies while a job is running, the
\* next Start moves the job to failed
C39_RunningEnds ==
    /\ \A id \in JobIds :
         (jobs[id].status = "running")
            ~> (jobs[id].status \in {"success", "failed", "waiting"})
    /\ [][(~started /\ started')
           => \A id \in JobIds :
                jobs[id].status = "running"
                => /\ jobs'[id].status = "failed"
                   /\ jobs'[id].output = InterruptedMsg]_vars

\* the process died while job 1 was running and the next Start has failed it;
\* job 2 has run to success in the new process
C39_Witness ==
    /\ crashes > 0 /\ started
    /\ jobs[1].status = "failed" /\ jobs[1].output = InterruptedMsg
    /\ jobs[2].status = "success" /\ RunsOf(runs, 2) # {}
====
